---- MODULE Spec2Model ----
(***************************************************************************)
(* Verification model of tm_cardmaker: the undo/redo manager, the layer     *)
(* collection, the project export and load and the text wrap of tm_cm.js,  *)
(* the bit codec (string2array / array2string) and the rectangle packer of *)
(* imageFit.js.                                                            *)
(*                                                                         *)
(* Ten specifications share the module:                                    *)
(*   Spec      - the editor: layer collection, DOM layer list, undo stack  *)
(*   SpecCap   - the editor restricted to field edits, undo, redo and the  *)
(*               history cap, run until the history is MaxHistory long     *)
(*   SpecCodec - string2array followed by array2string on a pixel buffer   *)
(*   SpecPack  - fitImages, one placed rectangle per step                  *)
(*   SpecProj  - catalog blocks, user and web images, autosave, export and *)
(*               load of project images, with the history                  *)
(*   SpecWrap  - the word wrap of text layers in drawProject and in the    *)
(*               hit test of dragStart                                     *)
(*   SpecRows  - the header rows clickSaveProject reserves for an export   *)
(*   SpecFetch - fetchBlock and the load and error events of its images    *)
(*   SpecCanvas - the canvas shared by the draws and the deferred steps of *)
(*               import and export                                         *)
(*   SpecHeap  - layer objects and the references the live map, the drag   *)
(*               and the history entries hold to them                      *)
(* Each specification holds the variables of the others constant.          *)
(***************************************************************************)
EXTENDS Integers, Sequences, FiniteSets, TLC

VARIABLES
    aLayers,          \* layer map: layer id (the n of "dragdropdiv<n>") -> layer record
    layerOrder,       \* ids of the .divRec elements of #layerlist, in DOM order
    ddcount,          \* next layer id handed out by addLayer
    undoStack,        \* sequence of [layers, layerOrder] snapshots
    undoIndex,        \* cursor into undoStack, 0-based as in the source, -1 = none
    maxUndoSteps,     \* configured cap of the history length
    isRestoringState, \* true while restoreStateFromIndex runs
    reloading,        \* true while loadFrom / setPresets run
    layerToDrag,      \* layer object held by the canvas drag, see DragStart
    lastOp,           \* name of the handler that produced the current state
    nOps,             \* number of handlers run so far
    sym,              \* bookkeeping of a run of undo() calls followed by redo() calls
    codec,            \* state of the codec specification
    pack,             \* state of the packer specification
    proj,             \* images, catalog, autosave and load state of the project specification
    wrap,             \* text layers, canvas font and line breaks of the text-wrap specification
    rows,             \* sizes of an export and of its header rows
    fetch,            \* Image objects created by fetchBlock and their requests
    canvas,           \* content of #cmcanvas and the timers pending on it
    heap              \* layer objects, the references to them and the history over them

editorVars == <<aLayers, layerOrder, ddcount, undoStack, undoIndex, maxUndoSteps,
                isRestoringState, reloading, layerToDrag, lastOp, nOps, sym>>
vars == <<aLayers, layerOrder, ddcount, undoStack, undoIndex, maxUndoSteps,
          isRestoringState, reloading, layerToDrag, lastOp, nOps, sym, codec, pack, proj, wrap, rows, fetch, canvas, heap>>

----------------------------------------------------------------------------
(* Bounds of the model                                                     *)

\* addLayer is not taken once ddcount has reached this value
MaxDdcount == 3
\* largest value a numeric layer field (x) takes
MaxValue == 1
\* number of handlers run in a behaviour of the editor specification
MaxOps == 4
\* in the history-cap specification a handler that may append to the history is not
\* taken once the history is this long
MaxHistory == 6

(* Program constants                                                       *)
DefaultMaxUndoSteps == 50
MinUndoSteps == 5
LimitUndoSteps == 500

Values == 0..MaxValue

\* values typed into the "max undo steps" input
StepInputs == {MinUndoSteps - 1, MinUndoSteps, MinUndoSteps + 1, LimitUndoSteps + 1}

----------------------------------------------------------------------------
(* Layers                                                                  *)

\* layerToDrag: no layer, or a layer object that is no longer part of aLayers
Null == -1
Detached == -2

NoLayers == <<>>

\* {type:"base", color:"#ffffff", height:1126, width:826, params:"color"}
BaseLayer(v) == [type |-> "base", x |-> v, style |-> "undefined"]

\* addTextBox: style "normal"; a saved layer may carry any style string
TextLayer(v, st) == [type |-> "text", x |-> v, style |-> st]

SeqToSet(s) == {s[i] : i \in 1..Len(s)}

RemoveId(s, id) == SelectSeq(s, LAMBDA e : e # id)

IndexOf(s, id) == CHOOSE i \in 1..Len(s) : s[i] = id

\* section.insertBefore(el, s[k]) for k <= Len(s), appendChild for k = Len(s)+1;
\* el is first taken out of the list
InsertAt(s, k, el) == SubSeq(s, 1, k - 1) \o <<el>> \o SubSeq(s, k, Len(s))

\* drawProject: walks the .divRec elements; the text case replaces a falsy style
\* by "normal" in the live layer. Nothing is drawn while reloading.
drawProject(L, ord, isReloading) ==
    IF isReloading THEN L
    ELSE [id \in DOMAIN L |->
            IF id \in SeqToSet(ord) /\ L[id].type = "text" /\ L[id].style = ""
            THEN [L[id] EXCEPT !.style = "normal"]
            ELSE L[id]]

----------------------------------------------------------------------------
(* Undo manager                                                            *)

Snapshot(L, ord) == [layers |-> L, layerOrder |-> ord]

\* hasStateChanged that reports a change whatever the live document is
hasStateChangedAlways(stack, idx, L) == TRUE

hasStateChanged(stack, idx, L) ==
    IF idx < 0 \/ idx >= Len(stack) THEN TRUE
    ELSE stack[idx + 1].layers # L

\* captureState that pushes without the eviction of the oldest entry
captureStateNoEviction(stack, idx, L, ord, mx, restoring) ==
    IF restoring THEN [stack |-> stack, index |-> idx]
    ELSE IF ~hasStateChanged(stack, idx, L) THEN [stack |-> stack, index |-> idx]
    ELSE LET kept == IF idx < Len(stack) - 1 THEN SubSeq(stack, 1, idx + 1) ELSE stack
         IN [stack |-> Append(kept, Snapshot(L, ord)), index |-> idx + 1]

\* the result of captureState on history (stack, idx) with live document (L, ord)
captureState(stack, idx, L, ord, mx, restoring) ==
    IF restoring THEN [stack |-> stack, index |-> idx]
    ELSE IF ~hasStateChanged(stack, idx, L) THEN [stack |-> stack, index |-> idx]
    ELSE LET kept == IF idx < Len(stack) - 1 THEN SubSeq(stack, 1, idx + 1) ELSE stack
             pushed == Append(kept, Snapshot(L, ord))
         IN IF Len(pushed) > mx
            THEN [stack |-> Tail(pushed), index |-> idx]
            ELSE [stack |-> pushed, index |-> idx + 1]

\* captureInitialState without the test of isRestoringState
captureInitialStateUnguarded(stack, idx, L, ord, mx, restoring) ==
    captureState(<<>>, -1, L, ord, mx, FALSE)

\* clearUndoHistory followed by captureState
captureInitialState(stack, idx, L, ord, mx, restoring) ==
    IF restoring THEN [stack |-> stack, index |-> idx]
    ELSE captureState(<<>>, -1, L, ord, mx, restoring)

\* the DOM order rebuildLayerListUI leaves, for live layers L and cursor idx
rebuildLayerListUI(stack, idx, L, ord) ==
    LET saved == IF idx >= 0 /\ idx < Len(stack) THEN stack[idx + 1].layerOrder ELSE <<>>
        order == IF Len(saved) = 0
                 THEN SelectSeq(ord, LAMBDA id : id \in DOMAIN L)
                 ELSE saved
    IN SelectSeq(order, LAMBDA id : id \in DOMAIN L)

\* the live document restoreStateFromIndex leaves
restoreStateFromIndex(stack, idx, L, ord) ==
    IF idx < 0 \/ idx >= Len(stack) THEN [layers |-> L, order |-> ord]
    ELSE LET restored == stack[idx + 1].layers
             newOrd == rebuildLayerListUI(stack, idx, restored, ord)
         IN [layers |-> drawProject(restored, newOrd, FALSE), order |-> newOrd]

\* a layer object held by a handler is no longer a live layer once aLayers is replaced
Detach(l) == IF l = Null THEN Null ELSE Detached

----------------------------------------------------------------------------
(* Bookkeeping for runs of undo() calls followed by redo() calls           *)

SymIdle == [phase |-> "idle", k |-> 0, r |-> 0, pre |-> Snapshot(NoLayers, <<>>)]

\* an undo() that moved the cursor; the first one of a run records the live document
SymUndo == IF sym.phase = "undo"
           THEN [sym EXCEPT !.k = @ + 1]
           ELSE [phase |-> "undo", k |-> 1, r |-> 0, pre |-> Snapshot(aLayers, layerOrder)]

\* a redo() that moved the cursor, counted while it follows the undo() calls of the run
SymRedo == IF sym.phase \in {"undo", "redo"} /\ sym.r < sym.k
           THEN [sym EXCEPT !.phase = "redo", !.r = @ + 1]
           ELSE SymIdle

----------------------------------------------------------------------------
(* Files and templates the user can load                                   *)

\* megaTemplates[...].layers: a base layer followed by further layers
Templates == { <<BaseLayer(0), TextLayer(v, "normal")>> : v \in Values }

\* layer lists decoded from an exported image (JSON.parse(layerStr))
ProjectFiles == { <<BaseLayer(v)>> : v \in Values }
           \cup { <<BaseLayer(v), TextLayer(0, "")>> : v \in Values }
           \cup { <<TextLayer(v, "normal")>> : v \in Values }

\* loadFrom: the saved layers are added in order with reloading = true, so that
\* addLayer captures nothing and drawProject draws nothing. The base case writes
\* into aLayers.dragdropdiv0 and throws when that layer is missing; the throw is
\* swallowed by loadFrom's try/catch and ends the loop.
RECURSIVE loadLayers(_, _)
loadLayers(saved, doc) ==
    IF saved = <<>> THEN doc
    ELSE LET layer == Head(saved)
         IN IF layer.type = "base"
            THEN IF 0 \in DOMAIN doc.layers
                 THEN loadLayers(Tail(saved),
                        [doc EXCEPT !.layers = [doc.layers EXCEPT ![0].x = layer.x]])
                 ELSE doc
            ELSE loadLayers(Tail(saved),
                   [layers |-> (doc.count :> layer) @@ doc.layers,
                    order |-> Append(doc.order, doc.count),
                    count |-> doc.count + 1])

\* loadFrom(saved): loadLayers, then reloading = false and drawProject()
loadFrom(saved, L, ord, cnt) ==
    LET doc == loadLayers(saved, [layers |-> L, order |-> ord, count |-> cnt])
    IN [doc EXCEPT !.layers = drawProject(doc.layers, doc.order, FALSE)]

\* userImageLoaded, the loop over the decoded layers: while the first decoded layer
\* is base and dragdropdiv0 exists, its fields are written into dragdropdiv0 and the
\* layer is shifted out; newLayers[i] is then read, which throws a TypeError when
\* the shift left no element at index i.
RECURSIVE mergeLoop(_, _, _)
mergeLoop(newLayers, L, i) ==
    IF i >= Len(newLayers) THEN [layers |-> L, rest |-> newLayers, thrown |-> FALSE]
    ELSE LET merge == newLayers[1].type = "base" /\ 0 \in DOMAIN L
             L1 == IF merge THEN [L EXCEPT ![0].x = newLayers[1].x] ELSE L
             nl == IF merge THEN Tail(newLayers) ELSE newLayers
         IN IF i >= Len(nl)
            THEN [layers |-> L1, rest |-> nl, thrown |-> TRUE]
            ELSE mergeLoop(nl, L1, i + 1)

----------------------------------------------------------------------------
(* The editor: state after the page has run resetProject(false)            *)

InitEditor ==
    /\ aLayers = (0 :> BaseLayer(0))
    /\ layerOrder = <<0>>
    /\ ddcount = 1
    /\ undoStack = <<Snapshot(NoLayers, <<>>)>>
    /\ undoIndex = 0
    /\ maxUndoSteps = DefaultMaxUndoSteps
    /\ isRestoringState = FALSE
    /\ reloading = FALSE
    /\ layerToDrag = Null
    /\ lastOp = "init"
    /\ nOps = 0
    /\ sym = SymIdle

Init ==
    /\ InitEditor
    /\ codec = [pc |-> "off"]
    /\ pack = [pc |-> "off"]
    /\ proj = [pc |-> "off"]
    /\ wrap = [pc |-> "off"]
    /\ rows = [pc |-> "off"]
    /\ fetch = [pc |-> "off"]
    /\ canvas = [pc |-> "off"]
    /\ heap = [pc |-> "off"]

\* resetProject without clearUndoHistory: the history of the old document stays
ResetProjectKeepsHistory ==
    LET cap == captureState(undoStack, undoIndex, NoLayers, <<>>, maxUndoSteps,
                            isRestoringState)
        L == (0 :> BaseLayer(0))
    IN /\ undoStack' = cap.stack
       /\ undoIndex' = cap.index
       /\ aLayers' = drawProject(L, <<0>>, reloading)
       /\ layerOrder' = <<0>>
       /\ ddcount' = 1
       /\ layerToDrag' = Detach(layerToDrag)
       /\ lastOp' = "resetProject"
       /\ sym' = SymIdle
       /\ UNCHANGED <<maxUndoSteps, isRestoringState, reloading, codec, pack, proj, wrap, rows, fetch, canvas, heap>>

\* clickNew -> resetProject(false): clearUndoHistory, empty layer list and map,
\* addLayer("Base", ...) which captures the emptied document, then drawProject
ResetProjectStep ==
    LET cap == captureState(<<>>, -1, NoLayers, <<>>, maxUndoSteps, isRestoringState)
        L == (0 :> BaseLayer(0))
    IN /\ undoStack' = cap.stack
       /\ undoIndex' = cap.index
       /\ aLayers' = drawProject(L, <<0>>, reloading)
       /\ layerOrder' = <<0>>
       /\ ddcount' = 1
       /\ layerToDrag' = Detach(layerToDrag)
       /\ lastOp' = "resetProject"
       /\ sym' = SymIdle
       /\ UNCHANGED <<maxUndoSteps, isRestoringState, reloading, codec, pack, proj, wrap, rows, fetch, canvas, heap>>

\* addTextBox -> addLayer: captureState before the layer is added, then drawProject
AddTextBoxStep ==
    /\ ddcount < MaxDdcount
    /\ LET cap == captureState(undoStack, undoIndex, aLayers, layerOrder,
                               maxUndoSteps, isRestoringState)
           L == (ddcount :> TextLayer(0, "normal")) @@ aLayers
           ord == Append(layerOrder, ddcount)
       IN /\ undoStack' = cap.stack
          /\ undoIndex' = cap.index
          /\ aLayers' = drawProject(L, ord, reloading)
          /\ layerOrder' = ord
          /\ ddcount' = ddcount + 1
    /\ lastOp' = "addLayer"
    /\ sym' = SymIdle
    /\ UNCHANGED <<maxUndoSteps, isRestoringState, reloading, layerToDrag, codec, pack, proj, wrap, rows, fetch, canvas, heap>>

\* deleteListItem: the X button exists on every layer row but the base layer's
DeleteListItemStep ==
    /\ \E id \in SeqToSet(layerOrder) \cap DOMAIN aLayers :
        /\ aLayers[id].type # "base"
        /\ LET cap == captureState(undoStack, undoIndex, aLayers, layerOrder,
                                   maxUndoSteps, isRestoringState)
               L == [j \in DOMAIN aLayers \ {id} |-> aLayers[j]]
               ord == RemoveId(layerOrder, id)
           IN /\ undoStack' = cap.stack
              /\ undoIndex' = cap.index
              /\ aLayers' = drawProject(L, ord, reloading)
              /\ layerOrder' = ord
        /\ layerToDrag' = IF layerToDrag = id THEN Detached ELSE layerToDrag
    /\ lastOp' = "deleteListItem"
    /\ sym' = SymIdle
    /\ UNCHANGED <<ddcount, maxUndoSteps, isRestoringState, reloading, codec, pack, proj, wrap, rows, fetch, canvas, heap>>

\* updateValue on a numeric field of the selected layer: captureState, then the write
UpdateValueStep ==
    /\ \E id \in SeqToSet(layerOrder) \cap DOMAIN aLayers, v \in Values :
        LET cap == captureState(undoStack, undoIndex, aLayers, layerOrder,
                                maxUndoSteps, isRestoringState)
            L == [aLayers EXCEPT ![id].x = v]
        IN /\ undoStack' = cap.stack
           /\ undoIndex' = cap.index
           /\ aLayers' = drawProject(L, layerOrder, reloading)
    /\ lastOp' = "updateValue"
    /\ sym' = SymIdle
    /\ UNCHANGED <<layerOrder, ddcount, maxUndoSteps, isRestoringState, reloading,
                   layerToDrag, codec, pack, proj, wrap, rows, fetch, canvas, heap>>

\* sortable: one dragover of the dragged row over a target row followed by dragend.
\* Rows other than dragdropdiv0 are draggable; a target above the dragged row takes
\* the row before it (never before dragdropdiv0), a target below takes it after it.
\* No state is captured; _onDragEnd draws.
SortLayerStep ==
    /\ \E dragEl \in SeqToSet(layerOrder), target \in SeqToSet(layerOrder) :
        /\ dragEl # 0
        /\ target # dragEl
        /\ LET up == IndexOf(layerOrder, target) < IndexOf(layerOrder, dragEl)
               rest == RemoveId(layerOrder, dragEl)
               t == IndexOf(rest, target)
           IN /\ ~(up /\ target = 0)
              /\ layerOrder' = IF up THEN InsertAt(rest, t, dragEl)
                               ELSE InsertAt(rest, t + 1, dragEl)
              /\ aLayers' = drawProject(aLayers, layerOrder', reloading)
    /\ lastOp' = "sortable"
    /\ sym' = SymIdle
    /\ UNCHANGED <<ddcount, undoStack, undoIndex, maxUndoSteps, isRestoringState,
                   reloading, layerToDrag, codec, pack, proj, wrap, rows, fetch, canvas, heap>>

\* undo (Ctrl+Z)
UndoStep ==
    /\ IF undoIndex <= 0
       THEN /\ lastOp' = "undoNone"
            /\ sym' = SymIdle
            /\ UNCHANGED <<aLayers, layerOrder, undoIndex, layerToDrag>>
       ELSE LET doc == restoreStateFromIndex(undoStack, undoIndex - 1, aLayers, layerOrder)
            IN /\ undoIndex' = undoIndex - 1
               /\ aLayers' = doc.layers
               /\ layerOrder' = doc.order
               /\ layerToDrag' = Detach(layerToDrag)
               /\ lastOp' = "undo"
               /\ sym' = SymUndo
    /\ UNCHANGED <<ddcount, undoStack, maxUndoSteps, isRestoringState, reloading,
                   codec, pack, proj, wrap, rows, fetch, canvas, heap>>

\* redo (Ctrl+Shift+Z, Ctrl+Y)
RedoStep ==
    /\ IF undoIndex >= Len(undoStack) - 1
       THEN /\ lastOp' = "redoNone"
            /\ sym' = SymIdle
            /\ UNCHANGED <<aLayers, layerOrder, undoIndex, layerToDrag>>
       ELSE LET doc == restoreStateFromIndex(undoStack, undoIndex + 1, aLayers, layerOrder)
            IN /\ undoIndex' = undoIndex + 1
               /\ aLayers' = doc.layers
               /\ layerOrder' = doc.order
               /\ layerToDrag' = Detach(layerToDrag)
               /\ lastOp' = "redo"
               /\ sym' = SymRedo
    /\ UNCHANGED <<ddcount, undoStack, maxUndoSteps, isRestoringState, reloading,
                   codec, pack, proj, wrap, rows, fetch, canvas, heap>>

\* updateMaxUndoSteps
UpdateMaxUndoStepsStep ==
    /\ \E newMax \in StepInputs :
        IF newMax < MinUndoSteps \/ newMax > LimitUndoSteps
        THEN UNCHANGED <<maxUndoSteps, undoStack, undoIndex>>
        ELSE /\ maxUndoSteps' = newMax
             /\ IF Len(undoStack) > newMax
                THEN LET excess == Len(undoStack) - newMax
                     IN /\ undoStack' = SubSeq(undoStack, excess + 1, Len(undoStack))
                        /\ undoIndex' = IF undoIndex - excess > -1
                                        THEN undoIndex - excess ELSE -1
                ELSE UNCHANGED <<undoStack, undoIndex>>
    /\ lastOp' = "updateMaxUndoSteps"
    /\ sym' = SymIdle
    /\ UNCHANGED <<aLayers, layerOrder, ddcount, isRestoringState, reloading,
                   layerToDrag, codec, pack, proj, wrap, rows, fetch, canvas, heap>>

\* addMegaTemplate: clearUndoHistory, a fresh base layer (addLayer captures the
\* emptied document), loadFrom(layers) which ends in captureInitialState, and
\* captureInitialState once more
AddMegaTemplateStep ==
    /\ \E t \in Templates :
        /\ Len(t) <= MaxDdcount
        /\ LET cap1 == captureState(<<>>, -1, NoLayers, <<>>, maxUndoSteps, isRestoringState)
               doc == loadFrom(t, (0 :> BaseLayer(0)), <<0>>, 1)
               cap2 == captureInitialState(cap1.stack, cap1.index, doc.layers, doc.order,
                                           maxUndoSteps, isRestoringState)
               cap3 == captureInitialState(cap2.stack, cap2.index, doc.layers, doc.order,
                                           maxUndoSteps, isRestoringState)
           IN /\ aLayers' = doc.layers
              /\ layerOrder' = doc.order
              /\ ddcount' = doc.count
              /\ undoStack' = cap3.stack
              /\ undoIndex' = cap3.index
    /\ layerToDrag' = Detach(layerToDrag)
    /\ lastOp' = "addMegaTemplate"
    /\ sym' = SymIdle
    /\ UNCHANGED <<maxUndoSteps, isRestoringState, reloading, codec, pack, proj, wrap, rows, fetch, canvas, heap>>

\* userImageLoaded with projectLoad set, the deferred decode of a project image:
\* the merge loop, then loadFrom(newLayers) which ends in captureInitialState.
\* A TypeError thrown by the loop leaves the callback before loadFrom is reached.
LoadProjectStep ==
    /\ \E f \in ProjectFiles :
        /\ ddcount + Len(f) <= MaxDdcount
        /\ LET m == mergeLoop(f, aLayers, 0)
           IN IF m.thrown
              THEN /\ aLayers' = m.layers
                   /\ lastOp' = "loadProjectThrown"
                   /\ UNCHANGED <<layerOrder, ddcount, undoStack, undoIndex>>
              ELSE LET doc == loadFrom(m.rest, m.layers, layerOrder, ddcount)
                       cap == captureInitialState(undoStack, undoIndex, doc.layers,
                                  doc.order, maxUndoSteps, isRestoringState)
                   IN /\ aLayers' = doc.layers
                      /\ layerOrder' = doc.order
                      /\ ddcount' = doc.count
                      /\ undoStack' = cap.stack
                      /\ undoIndex' = cap.index
                      /\ lastOp' = "loadProject"
    /\ sym' = SymIdle
    /\ UNCHANGED <<maxUndoSteps, isRestoringState, reloading, layerToDrag, codec, pack, proj, wrap, rows, fetch, canvas, heap>>

\* dragStart (mousedown on the canvas): the topmost layer under the pointer
DragStartStep ==
    /\ \E id \in SeqToSet(layerOrder) \cap DOMAIN aLayers : layerToDrag' = id
    /\ lastOp' = "dragStart"
    /\ sym' = SymIdle
    /\ UNCHANGED <<aLayers, layerOrder, ddcount, undoStack, undoIndex, maxUndoSteps,
                   isRestoringState, reloading, codec, pack, proj, wrap, rows, fetch, canvas, heap>>

\* drag (mousemove on the canvas): writes x of the held layer object and draws
DragStep ==
    /\ layerToDrag # Null
    /\ \E v \in Values :
        aLayers' = drawProject(IF layerToDrag = Detached THEN aLayers
                               ELSE [aLayers EXCEPT ![layerToDrag].x = v],
                               layerOrder, reloading)
    /\ lastOp' = "drag"
    /\ sym' = SymIdle
    /\ UNCHANGED <<layerOrder, ddcount, undoStack, undoIndex, maxUndoSteps,
                   isRestoringState, reloading, layerToDrag, codec, pack, proj, wrap, rows, fetch, canvas, heap>>

\* dragEnd (mouseup on the canvas): captureState after the drag
DragEndStep ==
    /\ IF layerToDrag # Null
       THEN LET cap == captureState(undoStack, undoIndex, aLayers, layerOrder,
                                    maxUndoSteps, isRestoringState)
            IN /\ undoStack' = cap.stack
               /\ undoIndex' = cap.index
       ELSE UNCHANGED <<undoStack, undoIndex>>
    /\ layerToDrag' = Null
    /\ lastOp' = IF layerToDrag # Null THEN "dragEnd" ELSE "dragEndNone"
    /\ sym' = SymIdle
    /\ UNCHANGED <<aLayers, layerOrder, ddcount, maxUndoSteps, isRestoringState,
                   reloading, codec, pack, proj, wrap, rows, fetch, canvas, heap>>

\* one more handler runs
Tick == nOps < MaxOps /\ nOps' = nOps + 1

ResetProject == Tick /\ ResetProjectStep
AddTextBox == Tick /\ AddTextBoxStep
DeleteListItem == Tick /\ DeleteListItemStep
UpdateValue == Tick /\ UpdateValueStep
SortLayer == Tick /\ SortLayerStep
Undo == Tick /\ UndoStep
Redo == Tick /\ RedoStep
UpdateMaxUndoSteps == Tick /\ UpdateMaxUndoStepsStep
AddMegaTemplate == Tick /\ AddMegaTemplateStep
LoadProject == Tick /\ LoadProjectStep
DragStart == Tick /\ DragStartStep
Drag == Tick /\ DragStep
DragEnd == Tick /\ DragEndStep

Next ==
    \/ ResetProject
    \/ AddTextBox
    \/ DeleteListItem
    \/ UpdateValue
    \/ SortLayer
    \/ Undo
    \/ Redo
    \/ UpdateMaxUndoSteps
    \/ AddMegaTemplate
    \/ LoadProject
    \/ DragStart
    \/ Drag
    \/ DragEnd

Spec == Init /\ [][Next]_vars

----------------------------------------------------------------------------
(* The history cap: field edits, undo, redo and changes of the cap on the  *)
(* new project, with histories long enough to exceed the smallest cap      *)

CapGuard == Len(undoStack) < MaxHistory /\ UNCHANGED nOps

CapUpdateValue == CapGuard /\ UpdateValueStep
CapUndo == UNCHANGED nOps /\ UndoStep
CapRedo == UNCHANGED nOps /\ RedoStep
CapUpdateMaxUndoSteps == UNCHANGED nOps /\ UpdateMaxUndoStepsStep

NextCap ==
    \/ CapUpdateValue
    \/ CapUndo
    \/ CapRedo
    \/ CapUpdateMaxUndoSteps

SpecCap == Init /\ [][NextCap]_vars

----------------------------------------------------------------------------
(* Claims about the undo manager and the layer collection                  *)

IsBase(id) == aLayers[id].type = "base"

CursorEntry == undoStack[undoIndex + 1]

\* C1: after k undo() calls followed by k redo() calls the layer map and the layer
\* order are what they were immediately before the first undo().
C1_UndoRedoSymmetry ==
    (sym.phase = "redo" /\ sym.r = sym.k) =>
        (aLayers = sym.pre.layers /\ layerOrder = sym.pre.layerOrder)

\* a drag that ends with the held layer somewhere else than the cursor entry has it
DragMutation == DragEnd /\ lastOp' = "dragEnd" /\ hasStateChanged(undoStack, undoIndex, aLayers)

\* C2: a mutation (layer add, layer delete, field edit, drag) performed while the
\* cursor is not at the last history entry discards the entries after the cursor, so
\* that the cursor is at the last entry afterwards and redo() does nothing.
C2_MutationTruncatesFuture ==
    [][((AddTextBox \/ DeleteListItem \/ UpdateValue \/ DragMutation)
            /\ undoIndex < Len(undoStack) - 1)
         => undoIndex' = Len(undoStack') - 1]_vars

\* C3: in every reachable state the layer collection holds exactly one base layer
\* and that layer is first in render order.
C3_OneBaseLayerFirst ==
    /\ Cardinality({id \in DOMAIN aLayers : IsBase(id)}) = 1
    /\ layerOrder # <<>>
    /\ layerOrder[1] \in DOMAIN aLayers
    /\ IsBase(layerOrder[1])

\* C4: undoIndex is a valid index into undoStack, or -1 exactly when undoStack is empty.
C4_CursorValid ==
    IF undoStack = <<>> THEN undoIndex = -1
    ELSE undoIndex >= 0 /\ undoIndex < Len(undoStack)

\* C5: immediately after undo() or redo() returns, the live layer map and the live
\* layer order are those of the history entry at the cursor.
C5_LiveIsCursorEntry ==
    lastOp \in {"undo", "redo", "undoNone", "redoNone"} =>
        /\ undoIndex >= 0 /\ undoIndex < Len(undoStack)
        /\ aLayers = CursorEntry.layers
        /\ layerOrder = CursorEntry.layerOrder

\* a step keeps a contiguous run of the history in its order, appends at most the
\* snapshot of the live document, and drops entries from the front only down to the cap
EvictsOldest ==
    \E d \in 0..Len(undoStack) : \E m \in d..Len(undoStack) :
        LET keptOld == SubSeq(undoStack, d + 1, m)
        IN /\ \/ undoStack' = keptOld
              \/ undoStack' = Append(keptOld, Snapshot(aLayers, layerOrder))
           /\ d > 0 => Len(undoStack') = maxUndoSteps'

\* C6: the history is never longer than maxUndoSteps; evicted entries are the oldest
\* ones and the remaining entries keep their relative order.
C6_HistoryCap ==
    /\ [](Len(undoStack) <= maxUndoSteps)
    /\ [][EvictsOldest]_vars

W6_Evicted ==
    /\ Len(undoStack) = MinUndoSteps
    /\ maxUndoSteps = MinUndoSteps
    /\ undoStack[1] # Snapshot(NoLayers, <<>>)

\* C7: a second captureState with no mutation in between leaves undoStack and
\* undoIndex unchanged: from every reachable state captureState applied twice gives
\* the history captureState applied once gives, and right after dragEnd has captured,
\* captureState changes nothing.
C7_SecondCaptureNoOp ==
    LET once == captureState(undoStack, undoIndex, aLayers, layerOrder, maxUndoSteps,
                             isRestoringState)
    IN /\ captureState(once.stack, once.index, aLayers, layerOrder, maxUndoSteps,
                       isRestoringState) = once
       /\ lastOp = "dragEnd" => once = [stack |-> undoStack, index |-> undoIndex]

W7_DragCaptured ==
    /\ lastOp = "dragEnd"
    /\ Len(undoStack) = 2
    /\ undoIndex = 1
    /\ undoStack[2] = Snapshot(aLayers, layerOrder)
    /\ 0 \in DOMAIN aLayers /\ aLayers[0].x = 1

\* C8: after a new project, a template or a project file has been loaded the history
\* holds no entry captured before the load (at most the one entry captured during the
\* load: the empty document or the loaded one) and undo() cannot move the cursor.
C8_LoadClearsHistory ==
    lastOp \in {"resetProject", "addMegaTemplate", "loadProject", "loadProjectThrown"} =>
        /\ undoIndex <= 0
        /\ Len(undoStack) <= 1
        /\ \A k \in 1..Len(undoStack) :
            undoStack[k] \in {Snapshot(NoLayers, <<>>), Snapshot(aLayers, layerOrder)}

----------------------------------------------------------------------------
(* The bit codec: string2array and array2string                            *)
(* A string is the sequence of its character codes; a buffer is a function *)
(* from byte positions 0..BufLen-1 to byte values (ImageData.data).        *)

\* longest string encoded
MaxStrLen == 2
\* largest start offset
MaxOffset == 4

\* room for the start offset, the string and its terminator: 8 slots per
\* character, at most 11 bytes once the alpha bytes are skipped
BufLen == MaxOffset + 12 * (MaxStrLen + 2)

\* character codes: NUL, the lowest bit, a letter, all seven bits
Chars == {0, 1, 65, 127}

\* values the buffer is filled with before the encoding: clear, set (imgPlus.data.fill(255))
\* and a value string2array never writes
FillBytes == {0, 255, 7}

Strings == UNION {[1..n -> Chars] : n \in 0..MaxStrLen}

Pow2(j) == 2 ^ j

\* (str.charCodeAt(i) & (1 << j)) ? 0xff : 0, most significant bit first
EncBitMsbFirst(c, j) == IF (c \div Pow2(7 - j)) % 2 = 1 THEN 255 ELSE 0

\* (str.charCodeAt(i) & (1 << j)) ? 0xff : 0
EncBit(c, j) == IF (c \div Pow2(j)) % 2 = 1 THEN 255 ELSE 0

\* the slot walk without the test of the alpha channel
SkipAlphaNever(pos) == pos

\* if (pos % 4 == 3) pos++
SkipAlpha(pos) == IF pos % 4 = 3 THEN pos + 1 ELSE pos

\* arr[pos] = v on a typed array: a write past the end is dropped
Store(arr, pos, v) == IF pos \in DOMAIN arr THEN [arr EXCEPT ![pos] = v] ELSE arr

\* arr[pos] on a typed array: undefined past the end, and undefined > 127 is false
Load(arr, pos) == IF pos \in DOMAIN arr THEN arr[pos] ELSE -1

\* the inner loop of string2array for the character code c, from bit j on
RECURSIVE writeChar(_, _, _, _)
writeChar(arr, pos, c, j) ==
    IF j = 8 THEN [arr |-> arr, pos |-> pos]
    ELSE LET p == SkipAlpha(pos)
         IN writeChar(Store(arr, p, EncBit(c, j)), p + 1, c, j + 1)

\* the outer loop of string2array from character i on
RECURSIVE writeString(_, _, _, _)
writeString(str, arr, pos, i) ==
    IF i > Len(str) THEN [arr |-> arr, pos |-> pos]
    ELSE LET w == writeChar(arr, pos, str[i], 0)
         IN writeString(str, w.arr, w.pos, i + 1)

string2array(str, arr, aPos, zeroTerminate) ==
    LET body == writeString(str, arr, aPos, 1)
        p == SkipAlpha(body.pos)
    IN IF zeroTerminate THEN writeChar(body.arr, p, 0, 0)
       ELSE [arr |-> body.arr, pos |-> p]

\* the inner loop of array2string: the code n read from bit j on
RECURSIVE readChar(_, _, _, _)
readChar(arr, pos, n, j) ==
    IF j = 8 THEN [n |-> n, pos |-> pos]
    ELSE LET p == SkipAlpha(pos)
             bit == IF Load(arr, p) > 127 THEN Pow2(j) ELSE 0
         IN readChar(arr, p + 1, n + bit, j + 1)

\* array2string's loop with the break on a zero code taken in zero-terminated mode only
RECURSIVE readStringBreakInZeroMode(_, _, _, _)
readStringBreakInZeroMode(arr, pos, len, str) ==
    LET r == readChar(arr, pos, 0, 0)
    IN IF r.n = 0 /\ len = 0 THEN [str |-> str, pos |-> r.pos]
       ELSE LET s2 == Append(str, r.n)
            IN IF Len(s2) = len \/ r.pos >= BufLen THEN [str |-> s2, pos |-> r.pos]
               ELSE readStringBreakInZeroMode(arr, r.pos, len, s2)

\* do { read a code; if (!n) break; str += String.fromCharCode(n) } while (str.length != len)
RECURSIVE readString(_, _, _, _)
readString(arr, pos, len, str) ==
    LET r == readChar(arr, pos, 0, 0)
    IN IF r.n = 0 THEN [str |-> str, pos |-> r.pos]
       ELSE LET s2 == Append(str, r.n)
            IN IF Len(s2) = len THEN [str |-> s2, pos |-> r.pos]
               ELSE readString(arr, r.pos, len, s2)

array2string(arr, aPos, len) == readString(arr, aPos, len, <<>>)

InitCodec ==
    /\ InitEditor
    /\ pack = [pc |-> "off"]
    /\ proj = [pc |-> "off"]
    /\ wrap = [pc |-> "off"]
    /\ rows = [pc |-> "off"]
    /\ fetch = [pc |-> "off"]
    /\ canvas = [pc |-> "off"]
    /\ heap = [pc |-> "off"]
    /\ \E str \in Strings, aPos \in 0..MaxOffset, fill \in FillBytes, zt \in BOOLEAN :
        codec = [pc |-> "start", str |-> str, aPos |-> aPos, zeroTerminate |-> zt,
                 arr |-> [i \in 0..(BufLen - 1) |-> fill],
                 pos |-> aPos, mode |-> "none", out |-> <<>>]

\* string2array(str, arr, aPos, zeroTerminate)
Encode ==
    /\ codec.pc = "start"
    /\ LET w == string2array(codec.str, codec.arr, codec.aPos, codec.zeroTerminate)
       IN codec' = [codec EXCEPT !.pc = "encoded", !.arr = w.arr, !.pos = w.pos]
    /\ UNCHANGED <<editorVars, pack, proj, wrap, rows, fetch, canvas, heap>>

\* array2string(arr, aPos, str.length)
DecodeFixed ==
    /\ codec.pc = "encoded"
    /\ LET r == array2string(codec.arr, codec.aPos, Len(codec.str))
       IN codec' = [codec EXCEPT !.pc = "decoded", !.mode = "fixed",
                                 !.out = r.str, !.pos = r.pos]
    /\ UNCHANGED <<editorVars, pack, proj, wrap, rows, fetch, canvas, heap>>

\* array2string(arr, aPos, 0) after a zero-terminated encode
DecodeZeroTerminated ==
    /\ codec.pc = "encoded"
    /\ codec.zeroTerminate
    /\ LET r == array2string(codec.arr, codec.aPos, 0)
       IN codec' = [codec EXCEPT !.pc = "decoded", !.mode = "zero",
                                 !.out = r.str, !.pos = r.pos]
    /\ UNCHANGED <<editorVars, pack, proj, wrap, rows, fetch, canvas, heap>>

NextCodec ==
    \/ Encode
    \/ DecodeFixed
    \/ DecodeZeroTerminated

SpecCodec == InitCodec /\ [][NextCodec]_vars

\* C9 as stated: for every string of ASCII characters the decoded string is the
\* encoded one, in fixed-length mode and in zero-terminated mode.
C9_RoundTripAllAscii ==
    codec.pc = "decoded" => codec.out = codec.str

HasNul(str) == \E i \in 1..Len(str) : str[i] = 0

\* C9 amended: for every string of ASCII characters without the NUL character the
\* decoded string is the encoded one, in fixed-length mode when the string is not
\* empty (len >= 1) and in zero-terminated mode.
C9_RoundTrip ==
    (/\ codec.pc = "decoded"
     /\ ~HasNul(codec.str)
     /\ codec.mode = "fixed" => Len(codec.str) >= 1)
    => codec.out = codec.str

W9_RoundTrip ==
    /\ codec.pc = "decoded"
    /\ codec.mode = "zero"
    /\ codec.str = <<65, 127>>
    /\ codec.aPos = 3
    /\ codec.out = codec.str

----------------------------------------------------------------------------
(* The rectangle packer: fitImages                                         *)
(* A box is [w, h]; a space is [x, y, w, h]; indices are 1-based here.     *)

\* most rectangles in one input list
MaxRects == 3
\* largest width or height of a rectangle
MaxDim == 2

Dims == 0..MaxDim

\* the minimum widths tried: none, one inside the range of the box widths, one
\* above every start width the area gives
MinWidths == {0, MaxDim, 3 * MaxDim}

\* the height of the first space
Infinity == -1

ImgLists == UNION {[1..n -> [width : Dims, height : Dims]] : n \in 0..MaxRects}

Max(a, b) == IF a >= b THEN a ELSE b

\* box.h > space.h
Exceeds(a, b) == b # Infinity /\ a > b

\* space.h -= box.h
Minus(a, b) == IF a = Infinity THEN Infinity ELSE a - b

RECURSIVE totalArea(_, _)
totalArea(boxes, i) ==
    IF i > Len(boxes) THEN 0 ELSE boxes[i].w * boxes[i].h + totalArea(boxes, i + 1)

\* Math.max over the box widths that finds no width
widestNone(boxes, i) == 0

RECURSIVE widest(_, _)
widest(boxes, i) ==
    IF i > Len(boxes) THEN 0 ELSE Max(boxes[i].w, widest(boxes, i + 1))

\* Math.ceil(Math.sqrt(area / 0.9)): the least n with 9 n^2 >= 10 area
ceilSqrt(area) ==
    CHOOSE n \in 0..(area + 1) :
        /\ 9 * n * n >= 10 * area
        /\ \A m \in 0..(n - 1) : 9 * m * m < 10 * area

\* order.sort(by height, descending): Array.prototype.sort is stable
RECURSIVE sortOrder(_, _, _)
sortOrder(boxes, sorted, i) ==
    IF i > Len(boxes) THEN sorted
    ELSE LET smaller == {k \in 1..Len(sorted) : boxes[sorted[k]].h < boxes[i].h}
             at == IF smaller = {} THEN Len(sorted) + 1
                   ELSE CHOOSE k \in smaller : \A k2 \in smaller : k <= k2
         IN sortOrder(boxes, InsertAt(sorted, at, i), i + 1)

\* the backward scan of the spaces for the first one the box fits in; 0 if none
RECURSIVE findSpace(_, _, _)
findSpace(spaces, box, i) ==
    IF i = 0 THEN 0
    ELSE IF box.w > spaces[i].w \/ Exceeds(box.h, spaces[i].h) THEN findSpace(spaces, box, i - 1)
    ELSE i

\* the space pushed to the right of the box, placed over the box itself
rightStripOverBox(space, box) ==
    [x |-> space.x, y |-> space.y, w |-> space.w - box.w, h |-> box.h]

\* the space pushed to the right of the box
rightStrip(space, box) ==
    [x |-> space.x + box.w, y |-> space.y, w |-> space.w - box.w, h |-> box.h]

\* the four cases of the space update after the box took the corner of spaces[i]
splitSpace(spaces, i, box) ==
    LET space == spaces[i]
        below == [space EXCEPT !.y = space.y + box.h, !.h = Minus(space.h, box.h)]
    IN IF box.w = space.w /\ box.h = space.h
       THEN LET popped == SubSeq(spaces, 1, Len(spaces) - 1)
            IN IF i <= Len(popped) THEN [popped EXCEPT ![i] = spaces[Len(spaces)]]
               ELSE popped
       ELSE IF box.h = space.h
       THEN [spaces EXCEPT ![i] = [space EXCEPT !.x = space.x + box.w,
                                                !.w = space.w - box.w]]
       ELSE IF box.w = space.w
       THEN [spaces EXCEPT ![i] = below]
       ELSE [Append(spaces, rightStrip(space, box)) EXCEPT ![i] = below]

InitPack ==
    /\ InitEditor
    /\ codec = [pc |-> "off"]
    /\ proj = [pc |-> "off"]
    /\ wrap = [pc |-> "off"]
    /\ rows = [pc |-> "off"]
    /\ fetch = [pc |-> "off"]
    /\ canvas = [pc |-> "off"]
    /\ heap = [pc |-> "off"]
    /\ \E imgList \in ImgLists, minWidth \in MinWidths :
        pack = [pc |-> "start", imgList |-> imgList, minWidth |-> minWidth,
                boxes |-> <<>>, order |-> <<>>, spaces |-> <<>>, pos |-> <<>>,
                i |-> 1, width |-> 0, height |-> 0, lastCase |-> "none",
                container |-> [width |-> 0, height |-> 0]]

\* fitImages up to the main loop: boxes, order, start width, first space
PackPrepare ==
    /\ pack.pc = "start"
    /\ LET boxes == [k \in 1..Len(pack.imgList) |->
                        [w |-> pack.imgList[k].width, h |-> pack.imgList[k].height]]
           startWidth == Max(Max(ceilSqrt(totalArea(boxes, 1)), widest(boxes, 1)),
                             pack.minWidth)
       IN pack' = [pack EXCEPT
                     !.pc = "loop",
                     !.boxes = boxes,
                     !.pos = [k \in 1..Len(boxes) |-> [placed |-> FALSE, x |-> 0, y |-> 0]],
                     !.order = sortOrder(boxes, <<>>, 1),
                     !.spaces = <<[x |-> 0, y |-> 0, w |-> startWidth, h |-> Infinity]>>]
    /\ UNCHANGED <<editorVars, codec, proj, wrap, rows, fetch, canvas, heap>>

\* one iteration of the main loop: place the next box of the order
PackPlace ==
    /\ pack.pc = "loop"
    /\ pack.i <= Len(pack.boxes)
    /\ LET b == pack.order[pack.i]
           box == pack.boxes[b]
           at == findSpace(pack.spaces, box, Len(pack.spaces))
       IN IF at = 0
          THEN pack' = [pack EXCEPT !.i = pack.i + 1, !.lastCase = "unplaced"]
          ELSE LET space == pack.spaces[at]
               IN pack' = [pack EXCEPT
                     !.i = pack.i + 1,
                     !.pos[b] = [placed |-> TRUE, x |-> space.x, y |-> space.y],
                     !.height = Max(pack.height, space.y + box.h),
                     !.width = Max(pack.width, space.x + box.w),
                     !.spaces = splitSpace(pack.spaces, at, box),
                     !.lastCase = IF box.w = space.w /\ box.h = space.h THEN "perfect"
                                  ELSE IF box.h = space.h THEN "height"
                                  ELSE IF box.w = space.w THEN "width"
                                  ELSE "split"]
    /\ UNCHANGED <<editorVars, codec, proj, wrap, rows, fetch, canvas, heap>>

\* the end of fitImages: the container and the positions are returned
PackReturn ==
    /\ pack.pc = "loop"
    /\ pack.i > Len(pack.boxes)
    /\ pack' = [pack EXCEPT !.pc = "done",
                            !.container = [width |-> pack.width, height |-> pack.height]]
    /\ UNCHANGED <<editorVars, codec, proj, wrap, rows, fetch, canvas, heap>>

NextPack ==
    \/ PackPrepare
    \/ PackPlace
    \/ PackReturn

SpecPack == InitPack /\ [][NextPack]_vars

Min(a, b) == IF a <= b THEN a ELSE b

\* the area two placed rectangles of the input share
SharedArea(a, b) ==
    LET l == pack.imgList
        p == pack.pos
        dx == Min(p[a].x + l[a].width, p[b].x + l[b].width) - Max(p[a].x, p[b].x)
        dy == Min(p[a].y + l[a].height, p[b].y + l[b].height) - Max(p[a].y, p[b].y)
    IN IF dx > 0 /\ dy > 0 THEN dx * dy ELSE 0

Placed == {k \in 1..Len(pack.pos) : pack.pos[k].placed}

\* C10: in what fitImages returns no two placed rectangles share any area, and the
\* container is at least as wide and as high as the extent of every placed rectangle.
C10_PackingNonOverlap ==
    pack.pc = "done" =>
        /\ \A a \in Placed : \A b \in Placed \ {a} : SharedArea(a, b) = 0
        /\ \A a \in Placed :
            /\ pack.container.width >= pack.pos[a].x + pack.imgList[a].width
            /\ pack.container.height >= pack.pos[a].y + pack.imgList[a].height

W10_PackedThree ==
    /\ pack.pc = "done"
    /\ Cardinality(Placed) = 3
    /\ \A a \in Placed : pack.imgList[a].width > 0 /\ pack.imgList[a].height > 0
    /\ \E a \in Placed : pack.pos[a].x > 0 /\ pack.pos[a].y = 0
    /\ \E a \in Placed : pack.pos[a].y > 0

----------------------------------------------------------------------------
(* The project: catalog blocks, user images, autosave, export and load     *)
(* Here proj holds                                                         *)
(*   userImageList  the bitmaps of the user images, iNum is 0-based        *)
(*   blockObj       blockList[i].obj per catalog index: none, loading,     *)
(*                  complete                                               *)
(*   webPending     the urls reloadWebImage is loading                     *)
(*   pending        the image whose deferred decode is scheduled           *)
(*   projectLoad    the flag of that name                                  *)
(*   uncaught       the exception that left the last callback, or "none"   *)
(*   lastAutoSave   the layer list autoSave stored                         *)
(*   file           the image clickSaveProject exported last               *)
(* and the layer collection, the layer list and the history are the        *)
(* editor's variables.                                                     *)

\* handlers run in one behaviour of the project specification
MaxProjOps == 4

\* blockList[i].src, i = 0, 1
BlockSrc == <<"resources__a", "tags__b">>

BlockIndexes == 0..(Len(BlockSrc) - 1)

\* the pixels of the user images
Bitmaps == {"p", "q"}

\* the url of the web image
WebUrl == "http://w"

\* addBlock: {type:"block", iNum: index, x: 0, ...}
BlockLayer(i, v) == [type |-> "block", x |-> v, iNum |-> i]

\* userImageLoaded, webImageLoaded, loadFrom: {type, iNum, filename, x, ...}
ImageLayer(t, n, f, v) == [type |-> t, x |-> v, iNum |-> n, filename |-> f]

\* resolveBlockIndex for the src string of a catalog entry: the first entry with that
\* src, or -1 (the matches by file-name suffix and by text serve other keys; the src
\* values of the catalog are distinct and no entry's text is another entry's src)
resolveBlockIndex(src) ==
    IF \E i \in BlockIndexes : BlockSrc[i + 1] = src
    THEN CHOOSE i \in BlockIndexes :
            /\ BlockSrc[i + 1] = src
            /\ \A j \in BlockIndexes : BlockSrc[j + 1] = src => i <= j
    ELSE -1

\* autoSave, one layer, without the block case: the shallow copy alone
saveLayerAsIs(layer) == layer

\* autoSave, one layer: a shallow copy; a block layer gets src and loses iNum
saveLayer(layer) ==
    IF layer.type = "block"
    THEN IF layer.iNum \in BlockIndexes
         THEN [type |-> "block", x |-> layer.x, src |-> BlockSrc[layer.iNum + 1]]
         ELSE [type |-> "block", x |-> layer.x]
    ELSE layer

\* autoSave(imagesForSaving): the layers of the .divRec elements in DOM order
autoSave(L, ord) == [k \in 1..Len(ord) |-> saveLayer(L[ord[k]])]

IsImageType(t) == t \in {"userFile", "embedded", "webFile"}

\* drawProject renders the layer: an image layer with iNum other than -1, a block
\* whose catalog image is complete, any other layer always
Renders(layer, blockObj) ==
    IF IsImageType(layer.type) THEN layer.iNum # -1
    ELSE IF layer.type = "block" THEN blockObj[layer.iNum] = "complete"
    ELSE TRUE

\* the bitmap-resolution state of a block or image layer
BitmapState(layer, blockObj, webPending) ==
    IF layer.type = "block"
    THEN (IF blockObj[layer.iNum] = "none" THEN "unresolved"
          ELSE IF blockObj[layer.iNum] = "loading" THEN "loading" ELSE "ready")
    ELSE IF layer.iNum # -1 THEN "ready"
    ELSE IF layer.type = "webFile" /\ layer.filename \in webPending THEN "loading"
    ELSE "unresolved"

\* drawProject starts fetchBlock for every drawn block without an image object
fetchOnDraw(L, ord, blockObj) ==
    [i \in BlockIndexes |->
        IF blockObj[i] = "none"
           /\ \E k \in 1..Len(ord) : L[ord[k]].type = "block" /\ L[ord[k]].iNum = i
        THEN "loading" ELSE blockObj[i]]

\* userImageList[layer.iNum]; undefined for an index outside the list
bitmapOf(uil, n) == IF n >= 0 /\ n < Len(uil) THEN uil[n + 1] ELSE "undefined"

\* clickSaveProject: the bitmaps of the userFile and embedded layers in DOM order are
\* packed by fitImages and drawn under the header rows, which carry the signature,
\* the positions and lastAutoSave. fitImages reads the width of every bitmap and
\* throws a TypeError for an undefined one.
clickSaveProject(L, ord, uil, saved) ==
    LET ids == SelectSeq(ord, LAMBDA id : L[id].type \in {"userFile", "embedded"})
        images == [k \in 1..Len(ids) |-> bitmapOf(uil, L[ids[k]].iNum)]
    IN IF \E k \in 1..Len(images) : images[k] = "undefined"
       THEN [kind |-> "none"]
       ELSE [kind |-> "project", images |-> images, layers |-> saved]

\* aCanvases.shift() handing out the last canvas instead of the first
takeCanvasFromEnd(canvases) ==
    IF canvases = <<>> THEN [canvas |-> "undefined", rest |-> <<>>]
    ELSE [canvas |-> canvases[Len(canvases)], rest |-> SubSeq(canvases, 1, Len(canvases) - 1)]

\* aCanvases.shift(): the first canvas, undefined when none is left
takeCanvas(canvases) ==
    IF canvases = <<>> THEN [canvas |-> "undefined", rest |-> <<>>]
    ELSE [canvas |-> Head(canvases), rest |-> Tail(canvases)]

\* userImageLoaded, the loop over the decoded layers with its image part: a userFile
\* or embedded layer at index i gets the next canvas as its bitmap and becomes embedded
RECURSIVE mergeImages(_, _, _, _, _)
mergeImages(newLayers, L, uil, canvases, i) ==
    IF i >= Len(newLayers)
    THEN [layers |-> L, rest |-> newLayers, uil |-> uil, thrown |-> FALSE]
    ELSE LET merge == newLayers[1].type = "base" /\ 0 \in DOMAIN L
             L1 == IF merge THEN [L EXCEPT ![0].x = newLayers[1].x] ELSE L
             nl == IF merge THEN Tail(newLayers) ELSE newLayers
         IN IF i >= Len(nl)
            THEN [layers |-> L1, rest |-> nl, uil |-> uil, thrown |-> TRUE]
            ELSE IF nl[i + 1].type \in {"userFile", "embedded"}
            THEN LET t == takeCanvas(canvases)
                     bound == [nl[i + 1] EXCEPT !.iNum = Len(uil), !.type = "embedded"]
                 IN mergeImages([nl EXCEPT ![i + 1] = bound], L1,
                                Append(uil, t.canvas), t.rest, i + 1)
            ELSE mergeImages(nl, L1, uil, canvases, i + 1)

\* addLayer while reloading: the layer gets the next id and goes to the end of the list
appendLayer(d, layer) ==
    [d EXCEPT !.layers = (d.count :> layer) @@ d.layers,
              !.order = Append(d.order, d.count),
              !.count = d.count + 1]

\* loadFrom, the loop over the saved layers; d is the document with the catalog
\* images and the pending web images
RECURSIVE loadSaved(_, _)
loadSaved(saved, d) ==
    IF saved = <<>> THEN d
    ELSE LET layer == Head(saved)
             rest == Tail(saved)
         IN IF layer.type = "base"
            THEN IF 0 \in DOMAIN d.layers
                 THEN loadSaved(rest, [d EXCEPT !.layers[0].x = layer.x])
                 ELSE d
            ELSE IF layer.type = "block"
            THEN LET found == IF "src" \in DOMAIN layer THEN resolveBlockIndex(layer.src)
                              ELSE IF "iNum" \in DOMAIN layer THEN layer.iNum ELSE -1
                     idx == IF found = -1 THEN 0 ELSE found
                     d1 == appendLayer(d, BlockLayer(idx, layer.x))
                 IN loadSaved(rest,
                        [d1 EXCEPT !.blockObj[idx] =
                            IF d.blockObj[idx] = "complete" THEN "complete" ELSE "loading"])
            ELSE IF layer.type = "webFile"
            THEN LET d1 == appendLayer(d, [layer EXCEPT !.iNum = -1])
                 IN loadSaved(rest, [d1 EXCEPT !.webPending = @ \cup {layer.filename}])
            ELSE IF layer.type = "userFile"
            THEN loadSaved(rest, appendLayer(d, [layer EXCEPT !.iNum = -1]))
            ELSE loadSaved(rest, appendLayer(d, layer))

\* layer ids handed out in one behaviour of the project specification
MaxProjLayers == 6

\* the values a field edit sets
ProjValues == {1}

NoFile == [kind |-> "none"]

\* drawProject with its autoSave and the fetchBlock calls of its block case
projDraw(L, ord, p) ==
    LET D == drawProject(L, ord, FALSE)
    IN [layers |-> D,
        proj |-> [p EXCEPT !.lastAutoSave = autoSave(D, ord),
                           !.blockObj = fetchOnDraw(D, ord, p.blockObj),
                           !.uncaught = "none"]]

\* what a reader of the document sees: per layer of the list its variant and field
\* values, the catalog entry of a block and the bitmap of an image layer
DocView(L, ord, uil) ==
    [k \in 1..Len(ord) |->
        LET layer == L[ord[k]]
        IN IF layer.type = "block"
           THEN [type |-> "block", x |-> layer.x, src |-> BlockSrc[layer.iNum + 1]]
           ELSE IF IsImageType(layer.type)
           THEN [type |-> layer.type, x |-> layer.x, filename |-> layer.filename,
                 bitmap |-> bitmapOf(uil, layer.iNum)]
           ELSE layer]

\* a document as a decoded project leaves it: base, block, text and two embedded
\* layers with different bitmaps
DecodedLayers ==
    (0 :> BaseLayer(1)) @@ (1 :> BlockLayer(1, 0)) @@ (2 :> TextLayer(1, "normal"))
    @@ (3 :> ImageLayer("embedded", 0, "f", 0)) @@ (4 :> ImageLayer("embedded", 1, "f", 1))

\* a project file with a web image layer
WebProjectFile ==
    [kind |-> "project", images |-> <<>>,
     layers |-> <<BaseLayer(1), ImageLayer("webFile", 0, WebUrl, 0)>>,
     doc |-> <<>>]

\* images the user can select: a photo without the signature, an image with the
\* signature and unparsable JSON, a project file
InputImages == {[kind |-> "photo"], [kind |-> "badJson"], WebProjectFile}

InitProjFresh ==
    /\ aLayers = (0 :> BaseLayer(0))
    /\ layerOrder = <<0>>
    /\ ddcount = 1
    /\ undoStack = <<Snapshot(NoLayers, <<>>)>>
    /\ undoIndex = 0
    /\ proj = [pc |-> "on", userImageList |-> <<>>,
               blockObj |-> [i \in BlockIndexes |-> "none"],
               webPending |-> {}, pending |-> NoFile, projectLoad |-> FALSE,
               uncaught |-> "none",
               lastAutoSave |-> autoSave((0 :> BaseLayer(0)), <<0>>),
               file |-> NoFile]

InitProjDecoded ==
    /\ aLayers = DecodedLayers
    /\ layerOrder = <<0, 1, 2, 3, 4>>
    /\ ddcount = 5
    /\ undoStack = <<Snapshot(DecodedLayers, <<0, 1, 2, 3, 4>>)>>
    /\ undoIndex = 0
    /\ proj = [pc |-> "on", userImageList |-> <<"p", "q">>,
               blockObj |-> [i \in BlockIndexes |-> IF i = 1 THEN "complete" ELSE "none"],
               webPending |-> {}, pending |-> NoFile, projectLoad |-> FALSE,
               uncaught |-> "none",
               lastAutoSave |-> autoSave(DecodedLayers, <<0, 1, 2, 3, 4>>),
               file |-> NoFile]

\* the document right after WebProjectFile was decoded into a new project: the web
\* image is still loading
WebPendingLayers == (0 :> BaseLayer(1)) @@ (1 :> ImageLayer("webFile", -1, WebUrl, 0))

InitProjWebPending ==
    /\ aLayers = WebPendingLayers
    /\ layerOrder = <<0, 1>>
    /\ ddcount = 2
    /\ undoStack = <<Snapshot(WebPendingLayers, <<0, 1>>)>>
    /\ undoIndex = 0
    /\ proj = [pc |-> "on", userImageList |-> <<>>,
               blockObj |-> [i \in BlockIndexes |-> "none"],
               webPending |-> {WebUrl}, pending |-> NoFile, projectLoad |-> FALSE,
               uncaught |-> "none",
               lastAutoSave |-> autoSave(WebPendingLayers, <<0, 1>>),
               file |-> NoFile]

InitProj ==
    /\ InitProjFresh \/ InitProjDecoded \/ InitProjWebPending
    /\ maxUndoSteps = DefaultMaxUndoSteps
    /\ isRestoringState = FALSE
    /\ reloading = FALSE
    /\ layerToDrag = Null
    /\ lastOp = "init"
    /\ nOps = 0
    /\ sym = SymIdle
    /\ codec = [pc |-> "off"]
    /\ pack = [pc |-> "off"]
    /\ wrap = [pc |-> "off"]
    /\ rows = [pc |-> "off"]
    /\ fetch = [pc |-> "off"]
    /\ canvas = [pc |-> "off"]
    /\ heap = [pc |-> "off"]

ProjTick == proj.pc = "on" /\ nOps < MaxProjOps /\ nOps' = nOps + 1

ProjFrame ==
    UNCHANGED <<maxUndoSteps, isRestoringState, reloading, layerToDrag, sym, codec, pack, wrap, rows, fetch, canvas, heap>>

\* addLayer outside a reload followed by drawProject: captureState, the new layer at
\* the end of the list, the draw
projAddLayer(layer, p) ==
    /\ ddcount < MaxProjLayers
    /\ LET cap == captureState(undoStack, undoIndex, aLayers, layerOrder,
                               maxUndoSteps, isRestoringState)
           ord == Append(layerOrder, ddcount)
           d == projDraw((ddcount :> layer) @@ aLayers, ord, p)
       IN /\ undoStack' = cap.stack
          /\ undoIndex' = cap.index
          /\ aLayers' = d.layers
          /\ layerOrder' = ord
          /\ ddcount' = ddcount + 1
          /\ proj' = d.proj

\* resetProject(false): userImageList and the catalog images stay
ProjResetProject ==
    /\ ProjTick
    /\ LET cap == captureState(<<>>, -1, NoLayers, <<>>, maxUndoSteps, isRestoringState)
           d == projDraw((0 :> BaseLayer(0)), <<0>>, proj)
       IN /\ undoStack' = cap.stack
          /\ undoIndex' = cap.index
          /\ aLayers' = d.layers
          /\ proj' = d.proj
    /\ layerOrder' = <<0>>
    /\ ddcount' = 1
    /\ lastOp' = "resetProject"
    /\ ProjFrame

\* addBlock(index): the layer is added, fetchBlock starts unless the catalog image
\* is complete, drawProject
ProjAddBlock ==
    /\ ProjTick
    /\ \E i \in BlockIndexes :
        projAddLayer(BlockLayer(i, 0),
            [proj EXCEPT !.blockObj[i] = IF @ = "complete" THEN "complete" ELSE "loading"])
    /\ lastOp' = "addBlock"
    /\ ProjFrame

\* onBlockLoad: the catalog image is complete, drawProject
ProjOnBlockLoad ==
    /\ ProjTick
    /\ \E i \in BlockIndexes :
        /\ proj.blockObj[i] = "loading"
        /\ LET d == projDraw(aLayers, layerOrder, [proj EXCEPT !.blockObj[i] = "complete"])
           IN aLayers' = d.layers /\ proj' = d.proj
    /\ lastOp' = "onBlockLoad"
    /\ UNCHANGED <<layerOrder, ddcount, undoStack, undoIndex>>
    /\ ProjFrame

ProjAddTextBox ==
    /\ ProjTick
    /\ projAddLayer(TextLayer(0, "normal"), proj)
    /\ lastOp' = "addTextBox"
    /\ ProjFrame

\* userImageLoaded with projectLoad false: the image becomes a userFile layer
ProjImportImage ==
    /\ ProjTick
    /\ ~proj.projectLoad
    /\ \E b \in Bitmaps :
        projAddLayer(ImageLayer("userFile", Len(proj.userImageList), "f", 0),
                     [proj EXCEPT !.userImageList = Append(@, b)])
    /\ lastOp' = "importImage"
    /\ ProjFrame

\* webImageLoaded: the image becomes a webFile layer
ProjWebImageLoaded ==
    /\ ProjTick
    /\ projAddLayer(ImageLayer("webFile", Len(proj.userImageList), WebUrl, 0),
                    [proj EXCEPT !.userImageList = Append(@, "w")])
    /\ lastOp' = "webImageLoaded"
    /\ ProjFrame

\* webImageReloaded: the image is pushed, the webFile layers with its url and iNum -1
\* get its index, drawProject
ProjWebImageReloaded ==
    /\ ProjTick
    /\ \E u \in proj.webPending :
        LET n == Len(proj.userImageList)
            L == [id \in DOMAIN aLayers |->
                    IF aLayers[id].type = "webFile" /\ aLayers[id].filename = u
                       /\ aLayers[id].iNum = -1
                    THEN [aLayers[id] EXCEPT !.iNum = n] ELSE aLayers[id]]
            d == projDraw(L, layerOrder,
                          [proj EXCEPT !.userImageList = Append(@, "w"),
                                       !.webPending = @ \ {u}])
        IN aLayers' = d.layers /\ proj' = d.proj
    /\ lastOp' = "webImageReloaded"
    /\ UNCHANGED <<layerOrder, ddcount, undoStack, undoIndex>>
    /\ ProjFrame

ProjUpdateValue ==
    /\ ProjTick
    /\ \E id \in SeqToSet(layerOrder), v \in ProjValues :
        LET cap == captureState(undoStack, undoIndex, aLayers, layerOrder,
                                maxUndoSteps, isRestoringState)
            d == projDraw([aLayers EXCEPT ![id].x = v], layerOrder, proj)
        IN /\ undoStack' = cap.stack
           /\ undoIndex' = cap.index
           /\ aLayers' = d.layers
           /\ proj' = d.proj
    /\ lastOp' = "updateValue"
    /\ UNCHANGED <<layerOrder, ddcount>>
    /\ ProjFrame

ProjUndo ==
    /\ ProjTick
    /\ undoIndex > 0
    /\ LET doc == restoreStateFromIndex(undoStack, undoIndex - 1, aLayers, layerOrder)
           d == projDraw(doc.layers, doc.order, proj)
       IN /\ aLayers' = d.layers
          /\ layerOrder' = doc.order
          /\ proj' = d.proj
    /\ undoIndex' = undoIndex - 1
    /\ lastOp' = "undo"
    /\ UNCHANGED <<ddcount, undoStack>>
    /\ ProjFrame

ProjRedo ==
    /\ ProjTick
    /\ undoIndex < Len(undoStack) - 1
    /\ LET doc == restoreStateFromIndex(undoStack, undoIndex + 1, aLayers, layerOrder)
           d == projDraw(doc.layers, doc.order, proj)
       IN /\ aLayers' = d.layers
          /\ layerOrder' = doc.order
          /\ proj' = d.proj
    /\ undoIndex' = undoIndex + 1
    /\ lastOp' = "redo"
    /\ UNCHANGED <<ddcount, undoStack>>
    /\ ProjFrame

\* clickSaveProject; doc records what the exported document looked like
ProjSaveProject ==
    /\ ProjTick
    /\ LET f == clickSaveProject(aLayers, layerOrder, proj.userImageList,
                                 proj.lastAutoSave)
       IN IF f.kind = "none"
          THEN /\ proj' = [proj EXCEPT !.uncaught = "TypeError"]
               /\ lastOp' = "saveProjectThrown"
          ELSE /\ proj' = [proj EXCEPT !.uncaught = "none",
                             !.file = [kind |-> "project", images |-> f.images,
                                       layers |-> f.layers,
                                       doc |-> DocView(aLayers, layerOrder,
                                                       proj.userImageList)]]
               /\ lastOp' = "saveProject"
    /\ UNCHANGED <<aLayers, layerOrder, ddcount, undoStack, undoIndex>>
    /\ ProjFrame

\* clickLoadProject, the file selection and userImageLoaded up to its setTimeout:
\* projectLoad is set, the image is drawn on the canvas and the decode is scheduled
ProjLoadFile ==
    /\ ProjTick
    /\ proj.pending = NoFile
    /\ \E img \in InputImages \cup ({proj.file} \ {NoFile}) :
        proj' = [proj EXCEPT !.projectLoad = TRUE, !.pending = img, !.uncaught = "none"]
    /\ lastOp' = "loadFile"
    /\ UNCHANGED <<aLayers, layerOrder, ddcount, undoStack, undoIndex>>
    /\ ProjFrame

\* the callback userImageLoaded passed to setTimeout: no try statement encloses it.
\* The signature test throws "project", JSON.parse throws a SyntaxError, the loop
\* over the decoded layers can throw a TypeError; otherwise loadFrom runs, with its
\* drawProject and captureInitialState, and projectLoad is cleared.
ProjDecode ==
    /\ ProjTick
    /\ proj.pending # NoFile
    /\ IF proj.pending.kind = "photo"
       THEN /\ proj' = [proj EXCEPT !.pending = NoFile, !.uncaught = "project"]
            /\ lastOp' = "decodeThrown"
            /\ UNCHANGED <<aLayers, layerOrder, ddcount, undoStack, undoIndex>>
       ELSE IF proj.pending.kind = "badJson"
       THEN /\ proj' = [proj EXCEPT !.pending = NoFile, !.uncaught = "SyntaxError"]
            /\ lastOp' = "decodeThrown"
            /\ UNCHANGED <<aLayers, layerOrder, ddcount, undoStack, undoIndex>>
       ELSE LET m == mergeImages(proj.pending.layers, aLayers, proj.userImageList,
                                 proj.pending.images, 0)
            IN IF m.thrown
               THEN /\ aLayers' = m.layers
                    /\ proj' = [proj EXCEPT !.pending = NoFile, !.uncaught = "TypeError",
                                            !.userImageList = m.uil]
                    /\ lastOp' = "decodeThrown"
                    /\ UNCHANGED <<layerOrder, ddcount, undoStack, undoIndex>>
               ELSE /\ ddcount + Len(m.rest) <= MaxProjLayers
                    /\ LET r == loadSaved(m.rest,
                                    [layers |-> m.layers, order |-> layerOrder,
                                     count |-> ddcount, blockObj |-> proj.blockObj,
                                     webPending |-> proj.webPending])
                           d == projDraw(r.layers, r.order,
                                    [proj EXCEPT !.pending = NoFile,
                                                 !.projectLoad = FALSE,
                                                 !.userImageList = m.uil,
                                                 !.blockObj = r.blockObj,
                                                 !.webPending = r.webPending])
                           cap == captureInitialState(undoStack, undoIndex, d.layers,
                                      r.order, maxUndoSteps, isRestoringState)
                       IN /\ aLayers' = d.layers
                          /\ layerOrder' = r.order
                          /\ ddcount' = r.count
                          /\ undoStack' = cap.stack
                          /\ undoIndex' = cap.index
                          /\ proj' = d.proj
                    /\ lastOp' = "decode"
    /\ ProjFrame

NextProj ==
    \/ ProjResetProject
    \/ ProjAddBlock
    \/ ProjOnBlockLoad
    \/ ProjAddTextBox
    \/ ProjImportImage
    \/ ProjWebImageLoaded
    \/ ProjWebImageReloaded
    \/ ProjUpdateValue
    \/ ProjUndo
    \/ ProjRedo
    \/ ProjSaveProject
    \/ ProjLoadFile
    \/ ProjDecode

SpecProj == InitProj /\ [][NextProj]_vars

----------------------------------------------------------------------------
(* Claims about project files                                              *)

\* the step in which the deferred decode of an image that is no project file runs
DecodesNonProject ==
    /\ proj.pc = "on"
    /\ proj.pending # NoFile
    /\ proj.pending.kind \in {"photo", "badJson"}
    /\ proj'.pending = NoFile

\* C11: decoding an image that lacks the tm_cmV01 signature, or whose layer JSON does
\* not parse, ends in a clean "not a project" result: no exception leaves the decode
\* uncaught.
C11_DecodeEndsClean ==
    [][DecodesNonProject => proj'.uncaught = "none"]_vars

\* C12: when the signature does not match or the JSON does not parse, the image is
\* imported as a plain image: the decode adds it as an ordinary user-image layer.
C12_FallbackImport ==
    [][DecodesNonProject =>
        \E id \in DOMAIN aLayers' \ DOMAIN aLayers :
            /\ aLayers'[id].type = "userFile"
            /\ id \in SeqToSet(layerOrder')]_vars

\* the step in which the deferred decode of a project file whose first layer is base
\* runs on a document that has its base layer
DecodesBaseFirst ==
    /\ proj.pc = "on"
    /\ proj.pending # NoFile
    /\ proj.pending.kind = "project"
    /\ Len(proj.pending.layers) >= 1
    /\ proj.pending.layers[1].type = "base"
    /\ 0 \in DOMAIN aLayers
    /\ aLayers[0].type = "base"
    /\ proj'.pending = NoFile

\* C13: for every decoded layer list, of any length from 1 on, whose first layer is
\* base, decoding into a document that has a base layer completes and leaves exactly
\* one base layer, whose fields are those of the decoded base layer.
C13_DecodeKeepsOneBase ==
    [][DecodesBaseFirst =>
        /\ lastOp' = "decode"
        /\ Cardinality({id \in DOMAIN aLayers' : aLayers'[id].type = "base"}) = 1
        /\ aLayers'[0].x = proj.pending.layers[1].x]_vars

\* the layer list has a base layer first and after it one or more block, text and
\* embedded layers
BlockTextEmbedded(view) ==
    /\ Len(view) >= 2
    /\ view[1].type = "base"
    /\ \A k \in 2..Len(view) : view[k].type \in {"block", "text", "embedded"}

\* the step in which the deferred decode of an exported document of block, text and
\* embedded layers runs on a new project
DecodesExportIntoFresh ==
    /\ proj.pc = "on"
    /\ proj.pending # NoFile
    /\ proj.pending.kind = "project"
    /\ BlockTextEmbedded(proj.pending.doc)
    /\ aLayers = (0 :> BaseLayer(0))
    /\ layerOrder = <<0>>
    /\ proj'.pending = NoFile

C15_ReadyStaysReady ==
    [][proj.pc = "on" =>
        \A id \in DOMAIN aLayers \cap DOMAIN aLayers' :
            (/\ aLayers[id].type \in {"block", "webFile", "userFile"}
             /\ aLayers'[id].type = aLayers[id].type
             /\ BitmapState(aLayers[id], proj.blockObj, proj.webPending) = "ready")
            => /\ BitmapState(aLayers'[id], proj'.blockObj, proj'.webPending) = "ready"
               /\ Renders(aLayers'[id], proj'.blockObj)]_vars

----------------------------------------------------------------------------
(* Claims about the editor, continued                                      *)

\* a handler that adds, deletes, edits or reorders changed the document, or a canvas
\* drag ended
VisibleMutation ==
    \/ /\ lastOp' \in {"addLayer", "deleteListItem", "updateValue", "sortable"}
       /\ (aLayers' # aLayers \/ layerOrder' # layerOrder)
    \/ lastOp' = "dragEnd"

\* C16: every mutation that changes the visible state (add, delete, edit, drag,
\* reorder) calls captureState, on the document before or after the change, and
\* leaves the document drawn.
C16_MutationCapturesAndDraws ==
    [][VisibleMutation =>
        /\ [stack |-> undoStack', index |-> undoIndex'] \in
              {captureState(undoStack, undoIndex, aLayers, layerOrder,
                            maxUndoSteps, isRestoringState),
               captureState(undoStack, undoIndex, aLayers', layerOrder',
                            maxUndoSteps, isRestoringState)}
        /\ aLayers' = drawProject(aLayers', layerOrder', FALSE)]_vars

----------------------------------------------------------------------------
(* Claims about the persisted form                                         *)

\* the layer records of the autosave string and of the exported image
PersistedRecords ==
    {proj.lastAutoSave[k] : k \in 1..Len(proj.lastAutoSave)}
    \cup (IF proj.file = NoFile THEN {}
          ELSE {proj.file.layers[k] : k \in 1..Len(proj.file.layers)})

----------------------------------------------------------------------------
(* The text wrap: drawProject's text case and clickIsWithinText            *)
(* A word is the number of its characters, a paragraph a sequence of       *)
(* words, the data of a text layer a sequence of paragraphs. Here wrap     *)
(* holds                                                                   *)
(*   layers   the text layers in DOM order: data, width, height            *)
(*   font     the pixel size of ctx.font of the canvas context             *)
(*   drawn    per layer the lines the last drawProject filled              *)
(*   hit      the layer and the lines of the last clickIsWithinText        *)

\* words of one paragraph
MaxWords == 2

\* layer.width, the wrap limit
MaxWrapWidth == 6

\* layer.height, the font pixel size
MaxFontSize == 2

WordLens == {1, 2}

Paragraphs == UNION {[1..n -> WordLens] : n \in 1..MaxWords}

TextData == {<<p>> : p \in Paragraphs} \cup {<<p, <<1, 1>>>> : p \in Paragraphs}

WrapWidths == 3..MaxWrapWidth

FontSizes == 1..MaxFontSize

\* ctx.measureText(s).width for a string of so many characters in a font of that
\* pixel size: every character is one font size wide
measureText(chars, font) == chars * font

\* the inner while loop: words are appended to the line o while the line with the
\* next word measures less than the width; taken counts the words of the line
RECURSIVE fillLine(_, _, _, _, _)
fillLine(o, taken, spl, width, font) ==
    IF spl # <<>> /\ measureText(o + 1 + Head(spl), font) < width
    THEN fillLine(o + 1 + Head(spl), taken + 1, Tail(spl), width, font)
    ELSE [chars |-> o, taken |-> taken, rest |-> spl]

\* drawProject, text case, one paragraph ln: one [ln, words] entry per filled line
RECURSIVE drawParagraph(_, _, _, _)
drawParagraph(ln, spl, width, font) ==
    IF spl = <<>> THEN <<>>
    ELSE LET f == fillLine(Head(spl), 1, Tail(spl), width, font)
         IN <<[ln |-> ln, words |-> f.taken]>> \o drawParagraph(ln, f.rest, width, font)

\* drawProject, text case: ctx.font is set from the layer, then every paragraph is
\* wrapped
RECURSIVE drawText(_, _)
drawText(layer, ln) ==
    IF ln > Len(layer.data) THEN <<>>
    ELSE drawParagraph(ln, layer.data[ln], layer.width, layer.height)
         \o drawText(layer, ln + 1)

\* clickIsWithinText: the same loops, measured in the font the context holds; the
\* function returns at the first line whose lower edge is below y (lineSpace is 0)
RECURSIVE clickLines(_, _, _, _, _, _)
clickLines(layer, ln, spl, cnt, font, y) ==
    IF spl = <<>>
    THEN IF ln >= Len(layer.data) THEN <<>>
         ELSE clickLines(layer, ln + 1, layer.data[ln + 1], cnt, font, y)
    ELSE LET f == fillLine(Head(spl), 1, Tail(spl), layer.width, font)
             line == <<[ln |-> ln, words |-> f.taken]>>
         IN IF y < layer.height * (cnt + 1) THEN line
            ELSE line \o clickLines(layer, ln, f.rest, cnt + 1, font, y)

clickIsWithinText(layer, font, y) ==
    IF y < 0 THEN <<>> ELSE clickLines(layer, 1, layer.data[1], 0, font, y)

\* drawProject over the text layers: the lines of every layer, and the font of the
\* last layer left on the context
drawTexts(layers) ==
    [drawn |-> [k \in 1..Len(layers) |-> drawText(layers[k], 1)],
     font |-> layers[Len(layers)].height]

\* a document of two drawn text layers: the lower one with any data, width and
\* height, the upper one a short label of any height
InitWrap ==
    /\ \E data \in TextData, w \in WrapWidths, h1 \in FontSizes, h2 \in FontSizes :
        LET layers == <<[data |-> data, width |-> w, height |-> h1],
                        [data |-> <<<<1>>>>, width |-> MaxWrapWidth, height |-> h2]>>
            d == drawTexts(layers)
        IN wrap = [pc |-> "drawn", layers |-> layers, font |-> d.font,
                   drawn |-> d.drawn, hit |-> [layer |-> 0, lines |-> <<>>]]
    /\ InitEditor
    /\ codec = [pc |-> "off"]
    /\ pack = [pc |-> "off"]
    /\ proj = [pc |-> "off"]
    /\ rows = [pc |-> "off"]
    /\ fetch = [pc |-> "off"]
    /\ canvas = [pc |-> "off"]
    /\ heap = [pc |-> "off"]

\* updateValue on the height or the width of a text layer, with its drawProject
WrapUpdateValue ==
    /\ wrap.pc # "off"
    /\ \E k \in 1..Len(wrap.layers) :
        \/ \E h \in FontSizes :
            LET layers == [wrap.layers EXCEPT ![k].height = h]
                d == drawTexts(layers)
            IN wrap' = [wrap EXCEPT !.pc = "drawn", !.layers = layers,
                                    !.font = d.font, !.drawn = d.drawn]
        \/ \E w \in WrapWidths :
            LET layers == [wrap.layers EXCEPT ![k].width = w]
                d == drawTexts(layers)
            IN wrap' = [wrap EXCEPT !.pc = "drawn", !.layers = layers,
                                    !.font = d.font, !.drawn = d.drawn]
    /\ UNCHANGED <<editorVars, codec, pack, proj, rows, fetch, canvas, heap>>

\* dragStart: clickIsWithinLayer calls clickIsWithinText for a text layer, with the
\* pointer y lines below the top of its first line
WrapDragStart ==
    /\ wrap.pc # "off"
    /\ \E k \in 1..Len(wrap.layers), y \in 0..(2 * MaxWords * MaxFontSize) :
        wrap' = [wrap EXCEPT !.pc = "hit",
                    !.hit = [layer |-> k,
                             lines |-> clickIsWithinText(wrap.layers[k], wrap.font, y)]]
    /\ UNCHANGED <<editorVars, codec, pack, proj, rows, fetch, canvas, heap>>

NextWrap ==
    \/ WrapUpdateValue
    \/ WrapDragStart

SpecWrap == InitWrap /\ [][NextWrap]_vars

\* s is a leading part of t
IsPrefix(s, t) == Len(s) <= Len(t) /\ \A i \in 1..Len(s) : s[i] = t[i]

\* C18: for every text layer of every document, the lines clickIsWithinText computes
\* break at the same word boundaries as the lines drawProject filled for that layer.
C18_WrapConsistency ==
    wrap.pc = "hit" => IsPrefix(wrap.hit.lines, wrap.drawn[wrap.hit.layer])

----------------------------------------------------------------------------
(* Claims about the history, continued                                     *)

\* undo() on history h with live document (L, ord): the document it leaves
undoOnce(h, L, ord) ==
    IF h.index <= 0 THEN [layers |-> L, order |-> ord]
    ELSE restoreStateFromIndex(h.stack, h.index - 1, L, ord)

\* updateValue(id, v) on the current state followed by undo()
editThenUndo(id, v) ==
    LET h == captureState(undoStack, undoIndex, aLayers, layerOrder,
                          maxUndoSteps, isRestoringState)
        L == drawProject([aLayers EXCEPT ![id].x = v], layerOrder, reloading)
    IN undoOnce(h, L, layerOrder)

\* addTextBox on the current state followed by undo()
addThenUndo ==
    LET h == captureState(undoStack, undoIndex, aLayers, layerOrder,
                          maxUndoSteps, isRestoringState)
        ord == Append(layerOrder, ddcount)
        L == drawProject((ddcount :> TextLayer(0, "normal")) @@ aLayers, ord, reloading)
    IN undoOnce(h, L, ord)

\* dragStart on layer id, drag to v and dragEnd on the current state followed by undo()
dragThenUndo(id, v) ==
    LET L == drawProject([aLayers EXCEPT ![id].x = v], layerOrder, reloading)
        h == captureState(undoStack, undoIndex, L, layerOrder,
                          maxUndoSteps, isRestoringState)
    IN undoOnce(h, L, layerOrder)

\* C19: with the cursor at the end of the history, one mutation (layer add, field
\* edit, drag) followed by one undo() leaves the layer collection exactly as it was
\* before the mutation.
C19_UndoRestoresPreMutation ==
    (proj.pc = "off" /\ wrap.pc = "off" /\ undoIndex = Len(undoStack) - 1
     /\ ~isRestoringState /\ ~reloading)
    => /\ addThenUndo.layers = aLayers
       /\ \A id \in SeqToSet(layerOrder) \cap DOMAIN aLayers, v \in Values :
            v # aLayers[id].x =>
                /\ editThenUndo(id, v).layers = aLayers
                /\ dragThenUndo(id, v).layers = aLayers

----------------------------------------------------------------------------
(* Claims about the bit codec, continued                                   *)

\* the characters of str before its first NUL character
RECURSIVE UpToNul(_)
UpToNul(str) ==
    IF str = <<>> \/ Head(str) = 0 THEN <<>> ELSE <<Head(str)>> \o UpToNul(Tail(str))

Encodes == codec.pc = "start" /\ codec'.pc = "encoded"

\* C22: string2array writes no byte at a position p with p % 4 = 3, every byte it
\* writes is 0 or 255, and every byte before the start offset, at or after the
\* returned position, or on an alpha position keeps its value.
C22_WritesPayloadSlotsOnly ==
    [][Encodes =>
        \A p \in DOMAIN codec.arr :
            /\ p % 4 = 3 => codec'.arr[p] = codec.arr[p]
            /\ (p < codec.aPos \/ p >= codec'.pos) => codec'.arr[p] = codec.arr[p]
            /\ codec'.arr[p] # codec.arr[p] => codec'.arr[p] \in {0, 255}
            /\ (p >= codec.aPos /\ p < codec'.pos /\ p % 4 # 3)
                 => codec'.arr[p] \in {0, 255}]_vars

\* a zero-terminated string of two characters was written from an alpha position on
\* into a buffer filled with a value string2array never writes: the alpha bytes and
\* the bytes behind the terminator still hold it
W22_EncodedOverAlpha ==
    /\ codec.pc = "encoded"
    /\ codec.aPos = 3
    /\ codec.zeroTerminate
    /\ codec.str = <<127, 1>>
    /\ codec.arr[3] = 7 /\ codec.arr[7] = 7 /\ codec.arr[0] = 7
    /\ codec.arr[4] = 255 /\ codec.arr[5] = 255
    /\ codec.arr[codec.pos - 1] = 0
    /\ codec.arr[codec.pos] = 7

----------------------------------------------------------------------------
(* The header rows of an export: clickSaveProject                          *)
(* Strings are modelled by their lengths, the header buffer by its number  *)
(* of payload slots (the three colour bytes of each pixel).                *)

\* most user images in one export
MaxImages == 400
\* the image counts tried
ImageCountStep == 20
ImageCounts == {k * ImageCountStep : k \in 0..(MaxImages \div ImageCountStep)} \cup {1, MaxImages}

\* fitImages(imagesForSaving, 200) and the clamp of the container width
MinExportWidth == 200
\* the rows added to the rows the two strings need
BaseExtraRows == 8
\* the characters added to the two string lengths: signature and terminators
ExtraChars == 10
\* the length of "tm_cmV01"
SignatureLen == 8

\* String(n).length of a non-negative integer
RECURSIVE digits(_)
digits(n) == IF n < 10 THEN 1 ELSE 1 + digits(n \div 10)

\* JSON.stringify of one placement {"x":..,"y":..,"width":..,"height":..}
posEntryLen(p) == 30 + digits(p.x) + digits(p.y) + digits(p.width) + digits(p.height)

\* the characters of the entries lo..hi of a placement list, summed by halves
RECURSIVE posEntriesLen(_, _, _)
posEntriesLen(pos, lo, hi) ==
    IF lo > hi THEN 0
    ELSE IF lo = hi THEN posEntryLen(pos[lo])
    ELSE LET mid == (lo + hi) \div 2
         IN posEntriesLen(pos, lo, mid) + posEntriesLen(pos, mid + 1, hi)

\* projectDataToJson(imgData.pos): brackets, entries, commas between them
projectDataToJsonLen(pos) ==
    2 + posEntriesLen(pos, 1, Len(pos)) + (IF Len(pos) > 0 THEN Len(pos) - 1 ELSE 0)

\* fitImages on n images of 1 x 1 with minimum width w: equal heights keep the
\* input order, the strip to the right of the first box of a row takes the next
\* w - 1 boxes, the space below takes the first box of the next row
fitUnitImages(n, w) ==
    [container |-> [width |-> IF n < w THEN n ELSE w, height |-> (n + w - 1) \div w],
     pos |-> [i \in 1..n |-> [x |-> (i - 1) % w, y |-> (i - 1) \div w]]]

\* Math.ceil(8 + (lastAutoSave.length + posStr.length + 10) / .375 / width)
extraRowsFor(jsonLen, posLen, width) ==
    BaseExtraRows + (8 * (jsonLen + posLen + ExtraChars) + 3 * width - 1) \div (3 * width)

\* the payload slots string2array consumes for a string of len characters
slotsOf(len, zeroTerminate) == 8 * (len + (IF zeroTerminate THEN 1 ELSE 0))

\* the layer JSON of an export with n image layers is at least this long
ImageLayerJsonLen == 100
\* characters of the layer JSON beyond the image layers
OtherJsonLens == {2, 500, 5000}

\* clickSaveProject on n user images of 1 x 1 and a layer JSON of jsonLen characters
clickSaveProjectRows(n, jsonLen) ==
    LET fit == IF n > 0 THEN fitUnitImages(n, MinExportWidth)
               ELSE [container |-> [width |-> MinExportWidth, height |-> MinExportWidth],
                     pos |-> <<>>]
        width == Max(fit.container.width, MinExportWidth)
        pos == [i \in 1..n |-> [x |-> fit.pos[i].x, y |-> fit.pos[i].y,
                                width |-> 1, height |-> 1]]
        posLen == projectDataToJsonLen(pos)
        extraRows == extraRowsFor(jsonLen, posLen, width)
        shifted == [i \in 1..n |-> [pos[i] EXCEPT !.y = pos[i].y + extraRows]]
        posLen2 == projectDataToJsonLen(shifted)
    IN [width |-> width, extraRows |-> extraRows, posLen |-> posLen, posLen2 |-> posLen2,
        slots |-> 3 * width * extraRows,
        p |-> slotsOf(SignatureLen, FALSE) + slotsOf(posLen2, TRUE) + slotsOf(jsonLen, TRUE)]

InitRows ==
    /\ InitEditor
    /\ codec = [pc |-> "off"]
    /\ pack = [pc |-> "off"]
    /\ proj = [pc |-> "off"]
    /\ wrap = [pc |-> "off"]
    /\ fetch = [pc |-> "off"]
    /\ canvas = [pc |-> "off"]
    /\ heap = [pc |-> "off"]
    /\ \E n \in ImageCounts, other \in OtherJsonLens :
        rows = [pc |-> "start", n |-> n, jsonLen |-> n * ImageLayerJsonLen + other]

RowsSave ==
    /\ rows.pc = "start"
    /\ rows' = [pc |-> "written", n |-> rows.n, jsonLen |-> rows.jsonLen,
                out |-> clickSaveProjectRows(rows.n, rows.jsonLen)]
    /\ UNCHANGED <<editorVars, codec, pack, proj, wrap, fetch, canvas, heap>>

NextRows == RowsSave

SpecRows == InitRows /\ [][NextRows]_vars

\* C23: for every layer JSON and placement list the signature and the two
\* zero-terminated payloads, the placement JSON with the shifted y included, end
\* inside the payload slots of the header rows.
C23_HeaderFits ==
    rows.pc = "written" => rows.out.p <= rows.out.slots

\* the packer places a list of 1 x 1 images as fitUnitImages says
UnitImagesFillRows ==
    (/\ pack.pc = "done"
     /\ \A k \in 1..Len(pack.imgList) : pack.imgList[k] = [width |-> 1, height |-> 1])
    => LET n == Len(pack.imgList)
           w == Max(Max(ceilSqrt(n), 1), pack.minWidth)
       IN n > 0 =>
           /\ \A k \in 1..n : /\ pack.pos[k].x = fitUnitImages(n, w).pos[k].x
                              /\ pack.pos[k].y = fitUnitImages(n, w).pos[k].y
           /\ pack.container = fitUnitImages(n, w).container

----------------------------------------------------------------------------
(* Catalog image requests: fetchBlock, its error handler, its callers      *)
(* A catalog name is the sequence of its parts between "__"; a path is the *)
(* folder and the file name; an Image object records the paths assigned to *)
(* its src.                                                                *)

\* most Image objects fetchBlock creates in one run
MaxFetches == 3

\* two entries of blockList: one name with the folder prefix, one without
FetchCatalog ==
    <<[src |-> <<"resources", "animal">>, putUnder |-> "resources"],
      [src |-> <<"city">>, putUnder |-> "tiles"]>>

FetchIndexes == 1..Len(FetchCatalog)

\* base.indexOf('__') === -1 ? putUnder + '__' + base : base
prefixedName(entry) ==
    IF Len(entry.src) = 1 THEN <<entry.putUnder>> \o entry.src ELSE entry.src

prefixedPath(entry) == [dir |-> entry.putUnder, file |-> prefixedName(entry)]

fallbackPath(entry) == [dir |-> entry.putUnder, file |-> entry.src]

\* HTMLImageElement.complete: true once the request has loaded or has failed
complete(img) == img.state \in {"loaded", "broken"}

\* img.onerror without the test of _fetchAttempts
onerrorAlwaysRetry(img, entry) ==
    IF prefixedPath(entry) # fallbackPath(entry)
    THEN [img EXCEPT !._fetchAttempts = img._fetchAttempts + 1,
                     !.requested = Append(img.requested, fallbackPath(entry))]
    ELSE [img EXCEPT !.state = "broken", !.logged = TRUE]

\* img.onerror: one more request under the fallback path after the first
\* failure when the two paths differ, else console.error and nothing more
onerror(img, entry) ==
    IF img._fetchAttempts = 0 /\ prefixedPath(entry) # fallbackPath(entry)
    THEN [img EXCEPT !._fetchAttempts = img._fetchAttempts + 1,
                     !.requested = Append(img.requested, fallbackPath(entry))]
    ELSE [img EXCEPT !.state = "broken", !.logged = TRUE]

\* fetchBlock(num): a new Image requested under the prefixed path becomes
\* blockList[num].obj
fetchBlock(f, num) ==
    [f EXCEPT !.images = Append(f.images,
                                [dataindex |-> num, _fetchAttempts |-> 0, state |-> "loading",
                                 requested |-> <<prefixedPath(FetchCatalog[num])>>,
                                 logged |-> FALSE]),
              !.obj[num] = Len(f.images) + 1]

InitFetch ==
    /\ InitEditor
    /\ codec = [pc |-> "off"]
    /\ pack = [pc |-> "off"]
    /\ proj = [pc |-> "off"]
    /\ wrap = [pc |-> "off"]
    /\ rows = [pc |-> "off"]
    /\ canvas = [pc |-> "off"]
    /\ heap = [pc |-> "off"]
    /\ fetch = [pc |-> "on", images |-> <<>>, obj |-> [i \in FetchIndexes |-> 0],
                last |-> "init"]

\* addBlock(num): the bitmap is used when blockList[num].obj is complete, else
\* fetchBlock(num) runs, also while an earlier request is still loading
FetchAddBlock ==
    /\ fetch.pc = "on"
    /\ \E num \in FetchIndexes :
        LET f == [fetch EXCEPT !.last = "addBlock"]
        IN IF fetch.obj[num] # 0 /\ complete(fetch.images[fetch.obj[num]])
           THEN fetch' = f
           ELSE /\ Len(fetch.images) < MaxFetches
                /\ fetch' = fetchBlock(f, num)
    /\ UNCHANGED <<editorVars, codec, pack, proj, wrap, rows, canvas, heap>>

\* drawProject over a block layer of a loaded project: fetchBlock(iNum) when
\* blockList[iNum].obj is not set
FetchDraw ==
    /\ fetch.pc = "on"
    /\ \E num \in FetchIndexes :
        LET f == [fetch EXCEPT !.last = "drawProject"]
        IN IF fetch.obj[num] # 0
           THEN fetch' = f
           ELSE /\ Len(fetch.images) < MaxFetches
                /\ fetch' = fetchBlock(f, num)
    /\ UNCHANGED <<editorVars, codec, pack, proj, wrap, rows, canvas, heap>>

\* the load event of a pending request
FetchOnLoad ==
    /\ fetch.pc = "on"
    /\ \E k \in 1..Len(fetch.images) :
        /\ fetch.images[k].state = "loading"
        /\ fetch' = [fetch EXCEPT !.images[k].state = "loaded", !.last = "onload"]
    /\ UNCHANGED <<editorVars, codec, pack, proj, wrap, rows, canvas, heap>>

\* the error event of a pending request
FetchOnError ==
    /\ fetch.pc = "on"
    /\ \E k \in 1..Len(fetch.images) :
        /\ fetch.images[k].state = "loading"
        /\ fetch' = [fetch EXCEPT
                       !.images[k] = onerror(fetch.images[k],
                                             FetchCatalog[fetch.images[k].dataindex]),
                       !.last = "onerror"]
    /\ UNCHANGED <<editorVars, codec, pack, proj, wrap, rows, canvas, heap>>

NextFetch ==
    \/ FetchAddBlock
    \/ FetchDraw
    \/ FetchOnLoad
    \/ FetchOnError

SpecFetch == InitFetch /\ [][NextFetch]_vars

\* the Image object of blockList[num] has failed for good
FetchFailed(num) ==
    /\ fetch.obj[num] # 0
    /\ fetch.images[fetch.obj[num]].state = "broken"

\* the requests of one Image object: the prefixed path first, the fallback path
\* once after the first failure when the two differ, the failure logged at the end
RetriedOnce(img) ==
    LET entry == FetchCatalog[img.dataindex]
    IN /\ img.requested[1] = prefixedPath(entry)
       /\ Len(img.requested) <= 2
       /\ Len(img.requested) = 2 =>
            /\ prefixedPath(entry) # fallbackPath(entry)
            /\ img.requested[2] = fallbackPath(entry)
       /\ img.state = "broken" =>
            /\ img.logged
            /\ Len(img.requested) = (IF prefixedPath(entry) = fallbackPath(entry) THEN 1 ELSE 2)
       /\ img.logged => img.state = "broken"

\* C24: a block request that fails under the prefixed file name is repeated exactly
\* once under the plain file name; after the second failure, or after the first
\* when the two names are the same, the failure is logged, the Image object
\* requests nothing more, and neither addBlock nor drawProject fetches the
\* catalog image again.
C24_RetryOnceThenStop ==
    /\ [](fetch.pc = "on" => \A k \in 1..Len(fetch.images) : RetriedOnce(fetch.images[k]))
    /\ [][\A num \in FetchIndexes :
            (fetch.pc = "on" /\ FetchFailed(num)) =>
                /\ fetch'.obj[num] = fetch.obj[num]
                /\ fetch'.images[fetch.obj[num]] = fetch.images[fetch.obj[num]]
                /\ \A k \in 1..Len(fetch'.images) :
                      fetch'.images[k].dataindex = num => k <= Len(fetch.images)]_vars

W24_FallbackFailedToo ==
    /\ fetch.pc = "on"
    /\ FetchFailed(2)
    /\ fetch.images[fetch.obj[2]].requested = <<prefixedPath(FetchCatalog[2]),
                                                 fallbackPath(FetchCatalog[2])>>
    /\ fetch.last = "addBlock"

----------------------------------------------------------------------------
(* The renderer and the layer collection                                   *)

\* the document loadFrom has built from a decoded file when it calls drawProject
LoadedBeforeDraw(f) ==
    LET m == mergeLoop(f, aLayers, 0)
    IN loadLayers(m.rest, [layers |-> m.layers, order |-> layerOrder, count |-> ddcount])

\* C25: drawProject is a function of the layer collection and writes nothing into
\* it: the layers and the layer order a project load leaves behind are the ones
\* loadFrom had built when it called drawProject.
C25_DrawLeavesLayers ==
    [][lastOp' = "loadProject" =>
          \E f \in ProjectFiles :
              /\ ~mergeLoop(f, aLayers, 0).thrown
              /\ aLayers' = LoadedBeforeDraw(f).layers
              /\ layerOrder' = LoadedBeforeDraw(f).order]_vars

----------------------------------------------------------------------------
(* The packer places every rectangle                                       *)

\* the width Math.ceil(Math.sqrt(area / 0.9)) gives for the input list
AreaEstimate == ceilSqrt(totalArea(pack.boxes, 1))

\* C26: fitImages places every rectangle of every input list, also one wider than
\* the width estimated from the area, and returns one position per input
\* rectangle under the index the rectangle has in the input: the rectangle of
\* input k, put at position k, lies inside the returned container.
C26_EveryRectanglePlaced ==
    /\ pack.pc \in {"loop", "done"} => pack.lastCase # "unplaced"
    /\ pack.pc = "done" =>
        /\ Len(pack.pos) = Len(pack.imgList)
        /\ \A k \in 1..Len(pack.imgList) :
            /\ pack.pos[k].placed
            /\ pack.pos[k].x >= 0 /\ pack.pos[k].y >= 0
            /\ pack.pos[k].x + pack.imgList[k].width <= pack.container.width
            /\ pack.pos[k].y + pack.imgList[k].height <= pack.container.height

W26_PlacedWiderThanEstimate ==
    /\ pack.pc = "done"
    /\ Len(pack.imgList) = 3
    /\ pack.minWidth = 0
    /\ \E k \in 1..3 : pack.imgList[k].width > AreaEstimate /\ pack.pos[k].placed
    /\ pack.imgList[1].height < pack.imgList[2].height
    /\ \A k \in 1..3 : pack.pos[k].placed

----------------------------------------------------------------------------
(* The shared canvas: #cmcanvas between the two steps of import and export *)
(* The canvas holds the drawing of the project ("project"), the imported   *)
(* image as userImageLoaded painted it ("import") or the header rows and   *)
(* images clickSaveProject wrote ("export"). Handlers run one at a time;   *)
(* any event may run between a setTimeout and its callback.                *)

\* most catalog bitmaps loading at once
MaxLoading == 2

\* drawProject() on the canvas
drawn(cv, op) == [cv EXCEPT !.content = "project", !.last = op]

InitCanvas ==
    /\ InitEditor
    /\ codec = [pc |-> "off"]
    /\ pack = [pc |-> "off"]
    /\ proj = [pc |-> "off"]
    /\ wrap = [pc |-> "off"]
    /\ rows = [pc |-> "off"]
    /\ fetch = [pc |-> "off"]
    /\ heap = [pc |-> "off"]
    /\ canvas = [pc |-> "on", content |-> "project", decodeTimer |-> FALSE,
                 saveTimer |-> FALSE, loading |-> 0, layerToDrag |-> FALSE,
                 read |-> "none", last |-> "init"]

CanvasFrame == UNCHANGED <<editorVars, codec, pack, proj, wrap, rows, fetch, heap>>

\* addBlock of a catalog entry whose bitmap is not loaded: fetchBlock, drawProject
CanvasAddBlock ==
    /\ canvas.pc = "on"
    /\ canvas.loading < MaxLoading
    /\ canvas' = [drawn(canvas, "addBlock") EXCEPT !.loading = canvas.loading + 1]
    /\ CanvasFrame

\* onBlockLoad: the load event of a catalog bitmap; ends in drawProject
CanvasOnBlockLoad ==
    /\ canvas.pc = "on"
    /\ canvas.loading > 0
    /\ canvas' = [drawn(canvas, "onBlockLoad") EXCEPT !.loading = canvas.loading - 1]
    /\ CanvasFrame

\* dragStart: mousedown on a layer of the canvas
CanvasDragStart ==
    /\ canvas.pc = "on"
    /\ ~canvas.layerToDrag
    /\ canvas' = [canvas EXCEPT !.layerToDrag = TRUE, !.last = "dragStart"]
    /\ CanvasFrame

\* drag: mousemove with a layer held; drawProject
CanvasDrag ==
    /\ canvas.pc = "on"
    /\ canvas.layerToDrag
    /\ canvas' = drawn(canvas, "drag")
    /\ CanvasFrame

\* dragEnd: mouseup; the layer is released, the key focus stays on it
CanvasDragEnd ==
    /\ canvas.pc = "on"
    /\ canvas.layerToDrag
    /\ canvas' = [canvas EXCEPT !.layerToDrag = FALSE, !.last = "dragEnd"]
    /\ CanvasFrame

\* userImageLoaded with projectLoad set: the image is painted on the canvas and
\* the decode is left to a timer
CanvasImport ==
    /\ canvas.pc = "on"
    /\ ~canvas.decodeTimer
    /\ canvas' = [canvas EXCEPT !.content = "import", !.decodeTimer = TRUE,
                                !.last = "userImageLoaded"]
    /\ CanvasFrame

\* the timer of userImageLoaded: getImageData of the whole canvas, the decode of
\* what it holds; a decoded project is loaded and drawn, the drawing of the
\* project fails the signature test and stays on the canvas
CanvasDecode ==
    /\ canvas.pc = "on"
    /\ canvas.decodeTimer
    /\ canvas' = [drawn(canvas, "decode") EXCEPT !.decodeTimer = FALSE,
                                                 !.read = canvas.content]
    /\ CanvasFrame

\* clickSaveProject: the canvas is resized, header rows and images are written,
\* the save is left to a timer
CanvasSaveProject ==
    /\ canvas.pc = "on"
    /\ ~canvas.saveTimer
    /\ canvas' = [canvas EXCEPT !.content = "export", !.saveTimer = TRUE,
                                !.last = "clickSaveProject"]
    /\ CanvasFrame

\* saveProjectCont: c.toDataURL goes into the download, saveDone draws the project
CanvasSaveCont ==
    /\ canvas.pc = "on"
    /\ canvas.saveTimer
    /\ canvas' = [drawn(canvas, "saveProjectCont") EXCEPT !.saveTimer = FALSE,
                                                          !.read = canvas.content]
    /\ CanvasFrame

NextCanvas ==
    \/ CanvasAddBlock
    \/ CanvasOnBlockLoad
    \/ CanvasDragStart
    \/ CanvasDrag
    \/ CanvasDragEnd
    \/ CanvasImport
    \/ CanvasDecode
    \/ CanvasSaveProject
    \/ CanvasSaveCont

SpecCanvas == InitCanvas /\ [][NextCanvas]_vars

\* C27: the second step of a deferred operation reads the canvas its first step
\* left: the decode timer reads the imported image, the save timer serializes
\* the export, whatever ran in between.
C27_SecondStepReadsFirst ==
    /\ canvas.pc = "on" /\ canvas.last = "decode" => canvas.read = "import"
    /\ canvas.pc = "on" /\ canvas.last = "saveProjectCont" => canvas.read = "export"

----------------------------------------------------------------------------
(* The projectLoad flag                                                    *)

\* C28: projectLoad is true only while a requested project load is pending: once
\* the decode of the chosen file has run, with or without success, the flag is
\* false and a plain import becomes a userFile layer.
C28_ProjectLoadOnlyWhilePending ==
    (proj.pc # "off" /\ proj.projectLoad) => proj.pending # NoFile

----------------------------------------------------------------------------
(* Layer objects and the references to them                                *)
(* mem[a] is the object at address a (its x field); a layer map takes a    *)
(* layer id to an address. The live map, layerToDrag and the layers of a   *)
(* history entry are such references.                                      *)

\* handlers run in the object specification
MaxHeapOps == 5
\* most layers of its document
MaxHeapLayers == 2

NoObject == 0

\* JSON.stringify of a layer map: the field values by layer id
valueOf(mem, m) == [id \in DOMAIN m |-> mem[m[id]]]

\* a copy that shares every object with the original
shareObjects(mem, m) == [mem |-> mem, map |-> m]

\* JSON.parse(JSON.stringify(m)): a new object per layer with the same values
deepClone(mem, m) ==
    LET ids == DOMAIN m
        rank(id) == Cardinality({j \in ids : j < id})
    IN [mem |-> mem \o [k \in 1..Cardinality(ids) |->
                           mem[m[CHOOSE id \in ids : rank(id) = k - 1]]],
        map |-> [id \in ids |-> Len(mem) + rank(id) + 1]]

heapHasStateChanged(h) ==
    IF h.undoIndex < 0 \/ h.undoIndex >= Len(h.undoStack) THEN TRUE
    ELSE valueOf(h.mem, h.undoStack[h.undoIndex + 1]) # valueOf(h.mem, h.aLayers)

\* captureState over objects: the pushed entry holds a deep clone of aLayers
heapCaptureState(h) ==
    IF ~heapHasStateChanged(h) THEN h
    ELSE LET kept == IF h.undoIndex < Len(h.undoStack) - 1
                     THEN SubSeq(h.undoStack, 1, h.undoIndex + 1) ELSE h.undoStack
             c == deepClone(h.mem, h.aLayers)
             pushed == Append(kept, c.map)
         IN IF Len(pushed) > DefaultMaxUndoSteps
            THEN [h EXCEPT !.mem = c.mem, !.undoStack = Tail(pushed)]
            ELSE [h EXCEPT !.mem = c.mem, !.undoStack = pushed,
                           !.undoIndex = h.undoIndex + 1]

\* restoreStateFromIndex over objects: aLayers becomes a deep clone of the entry
heapRestore(h, index) ==
    LET c == deepClone(h.mem, h.undoStack[index + 1])
    IN [h EXCEPT !.mem = c.mem, !.aLayers = c.map, !.undoIndex = index]

\* the page after resetProject(false): the emptied document in the history, the
\* base layer live
InitHeap ==
    /\ InitEditor
    /\ codec = [pc |-> "off"]
    /\ pack = [pc |-> "off"]
    /\ proj = [pc |-> "off"]
    /\ wrap = [pc |-> "off"]
    /\ rows = [pc |-> "off"]
    /\ fetch = [pc |-> "off"]
    /\ canvas = [pc |-> "off"]
    /\ heap = [pc |-> "on", mem |-> <<0>>, aLayers |-> (0 :> 1), ddcount |-> 1,
               undoStack |-> <<<<>>>>, undoIndex |-> 0, layerToDrag |-> NoObject,
               nOps |-> 0, last |-> "init"]

HeapFrame == UNCHANGED <<editorVars, codec, pack, proj, wrap, rows, fetch, canvas>>

heapDone(h, op) == [h EXCEPT !.nOps = heap.nOps + 1, !.last = op]

\* addLayer: captureState, then the new object enters aLayers
HeapAddLayer ==
    /\ heap.pc = "on" /\ heap.nOps < MaxHeapOps
    /\ heap.ddcount < MaxHeapLayers
    /\ LET h == heapCaptureState(heap)
       IN heap' = heapDone([h EXCEPT !.mem = Append(h.mem, 0),
                                     !.aLayers = (h.ddcount :> (Len(h.mem) + 1)) @@ h.aLayers,
                                     !.ddcount = h.ddcount + 1], "addLayer")
    /\ HeapFrame

\* updateValue: captureState, then the write into the live layer object
HeapUpdateValue ==
    /\ heap.pc = "on" /\ heap.nOps < MaxHeapOps
    /\ \E id \in DOMAIN heap.aLayers, v \in Values :
        LET h == heapCaptureState(heap)
        IN heap' = heapDone([h EXCEPT !.mem[h.aLayers[id]] = v], "updateValue")
    /\ HeapFrame

\* dragStart: layerToDrag refers to the live layer object under the pointer
HeapDragStart ==
    /\ heap.pc = "on" /\ heap.nOps < MaxHeapOps
    /\ \E id \in DOMAIN heap.aLayers :
        heap' = heapDone([heap EXCEPT !.layerToDrag = heap.aLayers[id]], "dragStart")
    /\ HeapFrame

\* drag: the write goes into the object layerToDrag refers to
HeapDrag ==
    /\ heap.pc = "on" /\ heap.nOps < MaxHeapOps
    /\ heap.layerToDrag # NoObject
    /\ \E v \in Values :
        heap' = heapDone([heap EXCEPT !.mem[heap.layerToDrag] = v], "drag")
    /\ HeapFrame

\* dragEnd: captureState when a layer is held, then layerToDrag = null
HeapDragEnd ==
    /\ heap.pc = "on" /\ heap.nOps < MaxHeapOps
    /\ LET h == IF heap.layerToDrag # NoObject THEN heapCaptureState(heap) ELSE heap
       IN heap' = heapDone([h EXCEPT !.layerToDrag = NoObject], "dragEnd")
    /\ HeapFrame

HeapUndo ==
    /\ heap.pc = "on" /\ heap.nOps < MaxHeapOps
    /\ heap.undoIndex > 0
    /\ heap' = heapDone(heapRestore(heap, heap.undoIndex - 1), "undo")
    /\ HeapFrame

HeapRedo ==
    /\ heap.pc = "on" /\ heap.nOps < MaxHeapOps
    /\ heap.undoIndex < Len(heap.undoStack) - 1
    /\ heap' = heapDone(heapRestore(heap, heap.undoIndex + 1), "redo")
    /\ HeapFrame

NextHeap ==
    \/ HeapAddLayer
    \/ HeapUpdateValue
    \/ HeapDragStart
    \/ HeapDrag
    \/ HeapDragEnd
    \/ HeapUndo
    \/ HeapRedo

SpecHeap == InitHeap /\ [][NextHeap]_vars

\* the objects a layer map refers to
ObjectsOf(m) == {m[id] : id \in DOMAIN m}

\* no history entry shares an object with the live map, with layerToDrag or with
\* another entry
HistoryOwnsItsObjects ==
    \A k \in 1..Len(heap.undoStack) :
        /\ ObjectsOf(heap.undoStack[k]) \cap ObjectsOf(heap.aLayers) = {}
        /\ heap.layerToDrag \notin ObjectsOf(heap.undoStack[k])
        /\ \A j \in 1..Len(heap.undoStack) :
              j # k => ObjectsOf(heap.undoStack[k]) \cap ObjectsOf(heap.undoStack[j]) = {}

\* entry k of the next history is entry j of this one, with the layers it had
EntryKept(k, j) ==
    /\ heap'.undoStack[k] = heap.undoStack[j]
    /\ valueOf(heap'.mem, heap'.undoStack[k]) = valueOf(heap.mem, heap.undoStack[j])

\* entry k of the next history is a new last entry with the layers captureState saw
EntryAppended(k) ==
    /\ k = Len(heap'.undoStack)
    /\ heap'.last \in {"addLayer", "updateValue", "dragEnd"}
    /\ valueOf(heap'.mem, heap'.undoStack[k]) = valueOf(heap.mem, heap.aLayers)

\* C29: the layers of a history entry are objects of their own, and a write into a
\* live layer or into the dragged layer, after a capture or after a restore,
\* changes no entry: every entry of the history after a handler is an entry of
\* the history before it with the same layers, or the entry the handler appended.
C29_SnapshotsIsolated ==
    /\ [](heap.pc = "on" => HistoryOwnsItsObjects)
    /\ [][heap.pc = "on" =>
            \A k \in 1..Len(heap'.undoStack) :
                \/ \E j \in 1..Len(heap.undoStack) : EntryKept(k, j)
                \/ EntryAppended(k)]_vars

W29_DraggedAfterRestore ==
    /\ heap.pc = "on"
    /\ heap.last = "drag"
    /\ heap.undoIndex + 1 < Len(heap.undoStack)
    /\ heap.layerToDrag \in ObjectsOf(heap.aLayers)
    /\ valueOf(heap.mem, heap.aLayers) # valueOf(heap.mem, heap.undoStack[heap.undoIndex + 1])

----------------------------------------------------------------------------
(* Layer identifiers                                                       *)

\* the identifiers of the live layers and of the layers of every history entry
IdsInUse ==
    DOMAIN aLayers \cup UNION {DOMAIN undoStack[k].layers : k \in 1..Len(undoStack)}

\* C30: the identifier the next addLayer assigns, dragdropdiv<ddcount>, is the
\* identifier of no live layer and of no layer of a history entry, after any
\* sequence of add, delete, undo, redo, reset, template and load.
C30_FreshIdentifiers ==
    /\ ddcount \notin IdsInUse
    /\ \A id \in IdsInUse : id < ddcount

W30_AddedAfterDelete ==
    /\ lastOp = "addLayer"
    /\ ddcount = 3
    /\ 1 \notin DOMAIN aLayers
    /\ 2 \in DOMAIN aLayers
    /\ \E k \in 1..Len(undoStack) : 1 \in DOMAIN undoStack[k].layers

====
